---- MODULE Spec2Model ----
(***************************************************************************)
(* A model of linebot-rs: the fixed-window rate limiter                    *)
(* (src/utils/rate_limit.rs), the signature check (src/utils/signature.rs) *)
(* and the webhook pipeline (src/webhook/server.rs, handlers.rs).          *)
(*                                                                         *)
(* Time is a discrete clock.  Instant::now() reads the clock; one call of  *)
(* check_rate_limit reads it at line 103 and again, later, inside          *)
(* RateLimitEntry::new / increment / time_until_reset.                     *)
(***************************************************************************)
EXTENDS Integers, Sequences, FiniteSets, TLC

\* ---------------------------------------------------------------- bounds
\* The limiter under test: RateLimitConfig { max_requests, window_duration }.
MaxRequests == 2
WindowDuration == 2
\* The clock stops advancing here.
MaxClock == 3
\* The number of check_rate_limit calls of one behaviour: concurrent callers,
\* and one caller alone.
MaxCalls == 3
MaxSeqCalls == 4
\* The calls of a behaviour whose cleanup task is followed to the end.
MaxLiveCalls == 2
\* The events of one webhook body, and the requests of one behaviour.
MaxBatch == 2
MaxHttp == 3
\* The bytes of a body handed to verify_signature directly.
MaxBodyLen == 2
\* The clock's resolution: ticks per second (a Duration counts ticks).
TicksPerSec == 2
\* The characters of an X-Forwarded-For value handed to extract_rate_limit_key.
MaxHeaderLen == 3
\* The handle_text_message calls of one behaviour.
MaxTextCalls == 2
\* The limiters constructed in one behaviour, and the handles of one limiter.
MaxLimiters == 3
MaxHandles == 2

\* self.config of the limiter under test
Config == [max_requests |-> MaxRequests, window_duration |-> WindowDuration]

\* RateLimitConfig::default()
DefaultMaxRequests == 10
DefaultWindowSecs == 60
DefaultConfig ==
    [max_requests |-> DefaultMaxRequests,
     window_duration |-> DefaultWindowSecs * TicksPerSec]

Keys == {"k1", "k2"}
Procs == {"p1", "p2"}

VARIABLES
    clock,      \* Instant::now()
    entries,    \* RateLimiter.entries: DashMap<String, RateLimitEntry>
    pc,         \* where each caller of check_rate_limit is
    key,        \* the caller's argument
    now,        \* the caller's local `now` (line 103)
    last,       \* the call that returned last: key, RateLimitResult, branch taken
    sweepPc,    \* where the cleanup task is
    sweepNow,   \* cleanup_expired_entries' local `now` (line 142)
    toScan,     \* keys entries.iter() has not visited yet
    toRemove,   \* cleanup_expired_entries' local `to_remove`
    calls,      \* check_rate_limit calls begun so far
    gFirst,     \* per key, when its first window opened (-1: not yet)
    gCalls,     \* per key, the calls made in that first window that returned
    gAllowed,   \* per key, those of them that returned Allowed
    gTrack,     \* the histories below that this specification keeps
    gSwept,     \* the `now` of the last finished sweep (-1: a call began since)
    gHist,      \* per key, when each call that returned Allowed began and ended
    gShadow,    \* the map of a limiter given the same calls that never sweeps
    gShadowLast, \* what that limiter returned last, and for which call
    logInfo,    \* whether the subscriber enables the handlers' info! callsites
    http,       \* requests received so far
    req,        \* the request in flight
    rpc,        \* where the request is in the pipeline
    status,     \* the status of its response (0: none yet)
    respBody,   \* the body of its response
    extracted,  \* whether the Json extractor has read the body
    decoded,    \* payload.events as the Json extractor decoded them
    iter,       \* the events the for loop has not taken yet
    dispatched, \* the events process_event was called for, in call order
    results,    \* what each finished process_event returned
    replyLog,   \* the reply_message calls made, in call order
    trace,      \* what the dispatches of the request did, in call order
    admitted,   \* per caller, the requests that reached handle_webhook
    mwAdmitted, \* per key, the requests rate_limit_middleware passed on
    mwLast,     \* the RateLimitResult rate_limit_middleware saw last
    mwResponse, \* the response a rate-limit middleware built last
    mwResponded, \* the check_rate_limit calls whose response the closure has built
    vpc,        \* where the caller of verify_signature is
    vsecret,    \* its argument channel_secret
    vbody,      \* its argument body
    vheader,    \* its argument signature
    vresult,    \* the bool it returned
    config,     \* RateLimiter.config of the limiter under test
    overflow_checks, \* whether the build checks integer overflow (debug) or wraps
    tpc,        \* where the caller of ReplyTokenValidator::validate is
    ttoken,     \* its argument reply_token
    tresult,    \* whether it returned Ok(())
    kpc,        \* where the caller of extract_rate_limit_key is
    krequest,   \* its argument: the headers and extensions of the request
    kresult,    \* the String it returned
    connAdmitted, \* per connection address, the requests the closure passed on
    limiters,   \* the RateLimiter values that are constructed and not dropped
    sweepTasks, \* the spawned cleanup tasks that are still running
    hlog        \* the handle_text_message calls that returned: text and messages

limiterVars == <<clock, entries, pc, key, now, last, sweepPc, sweepNow, toScan, toRemove>>

ghostVars == <<calls, gFirst, gCalls, gAllowed, gTrack, gSwept, gHist, gShadow, gShadowLast>>

mwVars == <<mwAdmitted, mwLast, mwResponse, mwResponded>>

sigVars == <<vpc, vsecret, vbody, vheader, vresult>>

buildVars == <<config, overflow_checks>>

tokVars == <<tpc, ttoken, tresult>>

keyVars == <<kpc, krequest, kresult, connAdmitted>>

taskVars == <<limiters, sweepTasks>>

textVars == <<hlog>>

appVars == <<logInfo, http, req, rpc, status, respBody, extracted, decoded, iter, dispatched,
             results, replyLog, trace, admitted>>

\* ------------------------------------------------------------ arithmetic
\* Instant::duration_since saturates at zero.
duration_since(a, b) == IF a >= b THEN a - b ELSE 0

\* Duration::saturating_sub, u32::saturating_sub.
saturating_sub(a, b) == IF a >= b THEN a - b ELSE 0

\* A u32 is written as the signed integer with the same 32 bits, so that
\* 0xFFFF_FFFF is -1 and the unsigned order puts the negative values last.
\* `a - b` on u32: the bits of the wrapped difference, and whether the
\* subtraction overflows (a panic where overflow is checked).
u32_sub(a, b) == [value |-> a - b, overflow |-> a < b]

u32_le(a, b) == IF (a < 0) = (b < 0) THEN a <= b ELSE b < 0

\* ------------------------------------------------------- RateLimitEntry
\* Mutant: a new entry does not count the request that created it.
NewEntry_CountZero(clk) == [count |-> 0, last_reset |-> clk, last_request |-> clk]

\* RateLimitEntry::new(): one Instant::now() for both fields.
NewEntry(clk) == [count |-> 1, last_reset |-> clk, last_request |-> clk]

\* RateLimitEntry::increment: no cap on count of its own.
increment(e, window_duration, clk) ==
    IF duration_since(clk, e.last_reset) >= window_duration
    THEN [count |-> 1, last_reset |-> clk, last_request |-> clk]
    ELSE [e EXCEPT !.count = e.count + 1, !.last_request = clk]

time_until_reset(e, window_duration, clk) ==
    saturating_sub(window_duration, duration_since(clk, e.last_reset))

\* ------------------------------------------------------ RateLimitResult
Allowed(remaining, reset_after) ==
    [kind |-> "Allowed", remaining |-> remaining, reset_after |-> reset_after]

Exceeded(retry_after) == [kind |-> "Exceeded", retry_after |-> retry_after]

NoResult == [kind |-> "none"]

\* ----------------------------------------------------- check_rate_limit
\* The branch taken while the entry's shard lock is held (get_mut returned
\* Some): `n` is the `now` of line 103, `clk` the clock read inside.
WindowExpired(cfg, e, n) == duration_since(n, e.last_reset) >= cfg.window_duration

\* Mutant: the cap test is off by one (count > max_requests).
LockedBranch_OffByOne(cfg, e, n, clk) ==
    IF WindowExpired(cfg, e, n)
    THEN [entry |-> NewEntry(clk),
          result |-> Allowed(u32_sub(cfg.max_requests, 1).value, cfg.window_duration),
          path |-> "reset", overflow |-> u32_sub(cfg.max_requests, 1).overflow]
    ELSE IF e.count > cfg.max_requests
    THEN [entry |-> e,
          result |-> Exceeded(time_until_reset(e, cfg.window_duration, clk)),
          path |-> "exceeded", overflow |-> FALSE]
    ELSE LET e2 == increment(e, cfg.window_duration, clk)
         IN  [entry |-> e2,
              result |-> Allowed(saturating_sub(cfg.max_requests, e2.count),
                                 time_until_reset(e2, cfg.window_duration, clk)),
              path |-> "increment", overflow |-> FALSE]

\* Mutant: a rejected call still bumps the counter.
LockedBranch_CountsRejected(cfg, e, n, clk) ==
    IF WindowExpired(cfg, e, n)
    THEN [entry |-> NewEntry(clk),
          result |-> Allowed(u32_sub(cfg.max_requests, 1).value, cfg.window_duration),
          path |-> "reset", overflow |-> u32_sub(cfg.max_requests, 1).overflow]
    ELSE IF e.count >= cfg.max_requests
    THEN [entry |-> increment(e, cfg.window_duration, clk),
          result |-> Exceeded(time_until_reset(e, cfg.window_duration, clk)),
          path |-> "exceeded", overflow |-> FALSE]
    ELSE LET e2 == increment(e, cfg.window_duration, clk)
         IN  [entry |-> e2,
              result |-> Allowed(saturating_sub(cfg.max_requests, e2.count),
                                 time_until_reset(e2, cfg.window_duration, clk)),
              path |-> "increment", overflow |-> FALSE]

\* Mutant: the cap is tested before the window's expiry.
LockedBranch_CapFirst(cfg, e, n, clk) ==
    IF e.count >= cfg.max_requests
    THEN [entry |-> e,
          result |-> Exceeded(time_until_reset(e, cfg.window_duration, clk)),
          path |-> "exceeded", overflow |-> FALSE]
    ELSE IF WindowExpired(cfg, e, n)
    THEN [entry |-> NewEntry(clk),
          result |-> Allowed(u32_sub(cfg.max_requests, 1).value, cfg.window_duration),
          path |-> "reset", overflow |-> u32_sub(cfg.max_requests, 1).overflow]
    ELSE LET e2 == increment(e, cfg.window_duration, clk)
         IN  [entry |-> e2,
              result |-> Allowed(saturating_sub(cfg.max_requests, e2.count),
                                 time_until_reset(e2, cfg.window_duration, clk)),
              path |-> "increment", overflow |-> FALSE]

\* Mutant: a rejected call is still recorded as the entry's last request.
LockedBranch_TouchesRejected(cfg, e, n, clk) ==
    IF WindowExpired(cfg, e, n)
    THEN [entry |-> NewEntry(clk),
          result |-> Allowed(u32_sub(cfg.max_requests, 1).value, cfg.window_duration),
          path |-> "reset", overflow |-> u32_sub(cfg.max_requests, 1).overflow]
    ELSE IF e.count >= cfg.max_requests
    THEN [entry |-> [e EXCEPT !.last_request = clk],
          result |-> Exceeded(time_until_reset(e, cfg.window_duration, clk)),
          path |-> "exceeded", overflow |-> FALSE]
    ELSE LET e2 == increment(e, cfg.window_duration, clk)
         IN  [entry |-> e2,
              result |-> Allowed(saturating_sub(cfg.max_requests, e2.count),
                                 time_until_reset(e2, cfg.window_duration, clk)),
              path |-> "increment", overflow |-> FALSE]

LockedBranch(cfg, e, n, clk) ==
    IF WindowExpired(cfg, e, n)
    THEN [entry |-> NewEntry(clk),
          result |-> Allowed(u32_sub(cfg.max_requests, 1).value, cfg.window_duration),
          path |-> "reset", overflow |-> u32_sub(cfg.max_requests, 1).overflow]
    ELSE IF e.count >= cfg.max_requests
    THEN [entry |-> e,
          result |-> Exceeded(time_until_reset(e, cfg.window_duration, clk)),
          path |-> "exceeded", overflow |-> FALSE]
    ELSE LET e2 == increment(e, cfg.window_duration, clk)
         IN  [entry |-> e2,
              result |-> Allowed(saturating_sub(cfg.max_requests, e2.count),
                                 time_until_reset(e2, cfg.window_duration, clk)),
              path |-> "increment", overflow |-> FALSE]

\* The else branch: entries.insert(key, RateLimitEntry::new()).
InsertBranch(cfg, clk) ==
    [entry |-> NewEntry(clk),
     result |-> Allowed(u32_sub(cfg.max_requests, 1).value, cfg.window_duration),
     path |-> "insert", overflow |-> u32_sub(cfg.max_requests, 1).overflow]

\* Mutant: storing an entry drops the entries of the other keys.
Put_DropsOthers(map, k, e) == [x \in {k} |-> e]

Put(map, k, e) == [x \in DOMAIN map \cup {k} |-> IF x = k THEN e ELSE map[x]]

Remove(map, k) == [x \in DOMAIN map \ {k} |-> map[x]]

\* The first window of a key opens when its first call returns; a later call
\* is made in that window when its `now` lies before the window's end.
InFirstWindow(k, n) == gFirst[k] >= 0 /\ n < gFirst[k] + config.window_duration

\* The call panicked: `max_requests - 1` overflowed where overflow is checked.
Panicked == [kind |-> "panic"]

\* The call ends: it returns its result, or it unwinds when the result's
\* subtraction overflowed in a build that checks (the entry is stored by then).
Completed(p, out, prev) ==
    LET k == key[p]
        res == IF out.overflow /\ overflow_checks THEN Panicked ELSE out.result
        a == IF res.kind = "Allowed" THEN 1 ELSE 0
    IN  /\ last' = [key |-> k, result |-> res, path |-> out.path, prev |-> prev]
        /\ pc' = [pc EXCEPT ![p] = "idle"]
        /\ key' = [key EXCEPT ![p] = "k1"]
        /\ now' = [now EXCEPT ![p] = 0]
        /\ gHist' = IF "calls" \in gTrack /\ res.kind = "Allowed"
                    THEN [gHist EXCEPT ![k] = Append(@, [begin |-> now[p], end |-> clock])]
                    ELSE gHist
        /\ IF gFirst[k] < 0
           THEN /\ gFirst' = [gFirst EXCEPT ![k] = clock]
                /\ gCalls' = [gCalls EXCEPT ![k] = 1]
                /\ gAllowed' = [gAllowed EXCEPT ![k] = a]
           ELSE IF InFirstWindow(k, now[p])
           THEN /\ gCalls' = [gCalls EXCEPT ![k] = @ + 1]
                /\ gAllowed' = [gAllowed EXCEPT ![k] = @ + a]
                /\ UNCHANGED gFirst
           ELSE UNCHANGED <<gFirst, gCalls, gAllowed>>

\* The limiter that never sweeps takes the same step of the same call at the
\* same instant: its lookup when the call looks up, its insert when the call
\* inserts (unless it found its entry at the lookup and has returned).
ShadowStep(p) ==
    LET k == key[p]
    IN  IF "shadow" \notin gTrack \/ gShadowLast.call = calls
        THEN UNCHANGED <<gShadow, gShadowLast>>
        ELSE IF k \in DOMAIN gShadow
        THEN LET out == LockedBranch(config, gShadow[k], now[p], clock)
             IN  /\ gShadow' = Put(gShadow, k, out.entry)
                 /\ gShadowLast' = [call |-> calls, result |-> out.result]
        ELSE IF pc[p] = "insert"
        THEN LET out == InsertBranch(config, clock)
             IN  /\ gShadow' = Put(gShadow, k, out.entry)
                 /\ gShadowLast' = [call |-> calls, result |-> out.result]
        ELSE UNCHANGED <<gShadow, gShadowLast>>

\* line 103: let now = Instant::now();
CheckBegin(p, k) ==
    /\ pc[p] = "idle"
    /\ calls' = calls + 1
    /\ pc' = [pc EXCEPT ![p] = "lookup"]
    /\ key' = [key EXCEPT ![p] = k]
    /\ now' = [now EXCEPT ![p] = clock]
    /\ UNCHANGED <<clock, entries, last, sweepPc, sweepNow, toScan, toRemove>>
    /\ gSwept' = -1
    /\ UNCHANGED <<gFirst, gCalls, gAllowed, gTrack, gHist, gShadow, gShadowLast>>
    /\ UNCHANGED <<appVars, mwVars, sigVars, buildVars, tokVars, keyVars, taskVars, textVars>>

\* line 105: self.entries.get_mut(key); lines 106-127 run under the lock.
CheckLookup(p) ==
    /\ pc[p] = "lookup"
    /\ IF key[p] \in DOMAIN entries
       THEN LET out == LockedBranch(config, entries[key[p]], now[p], clock)
            IN  /\ entries' = Put(entries, key[p], out.entry)
                /\ Completed(p, out, entries[key[p]].count)
       ELSE /\ pc' = [pc EXCEPT ![p] = "insert"]
            /\ UNCHANGED <<entries, last, key, now, gFirst, gCalls, gAllowed, gHist>>
    /\ ShadowStep(p)
    /\ UNCHANGED <<clock, sweepPc, sweepNow, toScan, toRemove, calls, gTrack, gSwept>>
    /\ UNCHANGED <<appVars, mwVars, sigVars, buildVars, tokVars, keyVars, taskVars, textVars>>

\* lines 128-135: get_mut returned None and holds no lock any more.
CheckInsert(p) ==
    /\ pc[p] = "insert"
    /\ LET out == InsertBranch(config, clock)
       IN  /\ entries' = Put(entries, key[p], out.entry)
           /\ Completed(p, out, 0)
    /\ ShadowStep(p)
    /\ UNCHANGED <<clock, sweepPc, sweepNow, toScan, toRemove, calls, gTrack, gSwept>>
    /\ UNCHANGED <<appVars, mwVars, sigVars, buildVars, tokVars, keyVars, taskVars, textVars>>

\* ----------------------------------------------- cleanup_expired_entries
\* Mutant: the elapsed times are taken the wrong way round (and saturate).
SweepExpired_Reversed(cfg, e, n) ==
    /\ duration_since(e.last_reset, n) > cfg.window_duration
    /\ duration_since(e.last_request, n) > cfg.window_duration

\* Mutant: an entry idle for exactly the window's length is expired too.
SweepExpired_Inclusive(cfg, e, n) ==
    /\ duration_since(n, e.last_reset) >= cfg.window_duration
    /\ duration_since(n, e.last_request) >= cfg.window_duration

\* lines 150-151
SweepExpired(cfg, e, n) ==
    /\ duration_since(n, e.last_reset) > cfg.window_duration
    /\ duration_since(n, e.last_request) > cfg.window_duration

\* interval.tick() fired; lines 142-143.
SweepStart ==
    /\ sweepPc = "idle"
    /\ sweepPc' = "scan"
    /\ sweepNow' = clock
    /\ toScan' = Keys
    /\ toRemove' = <<>>
    /\ UNCHANGED <<clock, entries, pc, key, now, last, ghostVars>>
    /\ UNCHANGED <<appVars, mwVars, sigVars, buildVars, tokVars, keyVars, taskVars, textVars>>

\* lines 145-155: entries.iter() visits one key (in the map's own order).
SweepScan(k) ==
    /\ sweepPc = "scan"
    /\ k \in toScan
    /\ toScan' = toScan \ {k}
    /\ toRemove' = IF k \in DOMAIN entries /\ SweepExpired(config, entries[k], sweepNow)
                   THEN Append(toRemove, k)
                   ELSE toRemove
    /\ sweepPc' = IF toScan' = {} THEN "remove" ELSE "scan"
    /\ UNCHANGED <<clock, entries, pc, key, now, last, sweepNow, ghostVars>>
    /\ UNCHANGED <<appVars, mwVars, sigVars, buildVars, tokVars, keyVars, taskVars, textVars>>

\* lines 157-160: entries.remove(&key), whatever the entry holds by now.
SweepRemove ==
    /\ sweepPc = "remove"
    /\ toRemove # <<>>
    /\ entries' = Remove(entries, Head(toRemove))
    /\ toRemove' = Tail(toRemove)
    /\ UNCHANGED <<clock, pc, key, now, last, sweepPc, sweepNow, toScan, ghostVars>>
    /\ UNCHANGED <<appVars, mwVars, sigVars, buildVars, tokVars, keyVars, taskVars, textVars>>

\* cleanup_expired_entries returns; the task waits for the next tick.
SweepDone ==
    /\ sweepPc = "remove"
    /\ toRemove = <<>>
    /\ sweepPc' = "idle"
    /\ sweepNow' = 0
    /\ gSwept' = IF "sweeps" \in gTrack THEN sweepNow ELSE gSwept
    /\ UNCHANGED <<clock, entries, pc, key, now, last, toScan, toRemove>>
    /\ UNCHANGED <<calls, gFirst, gCalls, gAllowed, gTrack, gHist, gShadow, gShadowLast>>
    /\ UNCHANGED <<appVars, mwVars, sigVars, buildVars, tokVars, keyVars, taskVars, textVars>>

Tick ==
    /\ clock < MaxClock
    /\ clock' = clock + 1
    /\ UNCHANGED <<entries, pc, key, now, last, sweepPc, sweepNow, toScan, toRemove, ghostVars>>
    /\ UNCHANGED <<appVars, mwVars, sigVars, buildVars, tokVars, keyVars, taskVars, textVars>>

NoCall == [key |-> "k1", result |-> NoResult, path |-> "none", prev |-> 0]

LimiterInit ==
    /\ clock = 0
    /\ entries = << >>
    /\ pc = [p \in Procs |-> "idle"]
    /\ key = [p \in Procs |-> "k1"]
    /\ now = [p \in Procs |-> 0]
    /\ last = NoCall
    /\ sweepPc = "idle"
    /\ sweepNow = 0
    /\ toScan = {}
    /\ toRemove = <<>>
    /\ calls = 0
    /\ gFirst = [k \in Keys |-> -1]
    /\ gCalls = [k \in Keys |-> 0]
    /\ gAllowed = [k \in Keys |-> 0]
    /\ gSwept = -1
    /\ gHist = [k \in Keys |-> <<>>]
    /\ gShadow = << >>
    /\ gShadowLast = [call |-> 0, result |-> NoResult]

\* The limiter under test is built with Config, by a build that checks
\* overflow (the test profile).
BuildInit ==
    /\ config = Config
    /\ overflow_checks = TRUE

\* ================================================================ strings
\* A string is a sequence of characters; each character has a UTF-8 width.
\* A character outside ASCII is written by its code point ("U+00E9").
Rep(c, n) == [i \in 1..n |-> c]

AsciiLetters == {"a", "b", "c", "d", "e", "f", "h", "i", "k", "l", "m", "n", "o",
                 "p", "s", "t", "u", "w", "H", "E", "L", "O", "U"}
AsciiDigits == {"0", "1", "2", "3"}

\* char::len_utf8 of the characters the inputs use.
len_utf8(c) ==
    IF c \in {"U+00E9"} THEN 2
    ELSE IF c \in {"U+4F60", "U+597D"} THEN 3
    ELSE 1

\* str::len(): the length in bytes.
RECURSIVE ByteLen(_)
ByteLen(str) == IF str = <<>> THEN 0 ELSE len_utf8(Head(str)) + ByteLen(Tail(str))

\* str::is_char_boundary(i): 0, the end, or the first byte of a character.
is_char_boundary(str, i) ==
    \E n \in 0..Len(str) : ByteLen(SubSeq(str, 1, n)) = i

\* =============================================================== signature
Secrets == {"channel_secret", "other_secret"}

\* Config.channel_secret
ChannelSecret == "channel_secret"

\* HMAC-SHA256 as an injective keyed function: a two-byte digest that names
\* the key and the message.
HmacSha256(secret, body) ==
    << [s |-> secret, b |-> body, i |-> 1], [s |-> secret, b |-> body, i |-> 2] >>

\* The characters of a header value: the literal "sha256=" (seven
\* characters, taken as one), one base64 group per byte, and a character
\* that is not in the base64 alphabet.
PrefixSha256 == [c |-> "sha256="]
NotBase64 == [c |-> "!"]
B64(byte) == [d |-> byte]

IsB64(ch) == DOMAIN ch = {"d"}

\* STANDARD.encode
B64Encode(bytes) == [i \in 1..Len(bytes) |-> B64(bytes[i])]

\* STANDARD.decode: Ok(bytes) or Err
B64Decode(text) ==
    IF \A i \in 1..Len(text) : IsB64(text[i])
    THEN [ok |-> TRUE, bytes |-> [i \in 1..Len(text) |-> text[i].d]]
    ELSE [ok |-> FALSE, bytes |-> <<>>]

\* Mutant: a value without the prefix is taken whole as the signature.
StripPrefix_Lenient(text) ==
    IF Len(text) >= 1 /\ text[1] = PrefixSha256
    THEN [some |-> TRUE, rest |-> Tail(text)]
    ELSE [some |-> TRUE, rest |-> text]

\* str::strip_prefix("sha256=")
StripPrefix(text) ==
    IF Len(text) >= 1 /\ text[1] = PrefixSha256
    THEN [some |-> TRUE, rest |-> Tail(text)]
    ELSE [some |-> FALSE, rest |-> <<>>]

\* Mutant: compares the digest of the key alone, not of the body.
verify_signature_IgnoresBody(channel_secret, body, signature) ==
    LET sig == StripPrefix(signature)
        dec == B64Decode(sig.rest)
    IN  /\ sig.some
        /\ dec.ok
        /\ Len(dec.bytes) = 2
        /\ \A i \in 1..2 : dec.bytes[i].s = channel_secret

\* Mutant: a truncated digest is accepted (the comparison stops at the
\* length of the bytes received).
verify_signature_Truncated(channel_secret, body, signature) ==
    LET sig == StripPrefix(signature)
        dec == B64Decode(sig.rest)
        mac == HmacSha256(channel_secret, body)
    IN  /\ sig.some
        /\ dec.ok
        /\ Len(dec.bytes) <= Len(mac)
        /\ dec.bytes = SubSeq(mac, 1, Len(dec.bytes))

\* verify_signature(channel_secret, body, signature) -> bool
verify_signature(channel_secret, body, signature) ==
    LET sig == StripPrefix(signature)
        dec == B64Decode(sig.rest)
    IN  /\ sig.some
        /\ dec.ok
        /\ dec.bytes = HmacSha256(channel_secret, body)

\* create_test_signature of the integration tests: what the platform sends.
Sign(secret, body) == <<PrefixSha256>> \o B64Encode(HmacSha256(secret, body))

\* ------------------------------------------------ a call of verify_signature
\* The bodies, digests and header values of a direct call.
Bits == {0, 1}
SigBodies == UNION { [1..n -> Bits] : n \in 0..MaxBodyLen }

SigDigests == { HmacSha256(s, b) : s \in Secrets, b \in SigBodies }

\* Byte strings a header may carry: digests, truncated and extended ones, none.
SigByteStrings ==
    SigDigests \cup { <<d[1]>> : d \in SigDigests }
               \cup { d \o <<d[1]>> : d \in SigDigests } \cup { <<>> }

PrefixUpper == [c |-> "SHA256="]

SigHeaders ==
    { <<PrefixSha256>> \o B64Encode(x) : x \in SigByteStrings }
    \cup { B64Encode(x) : x \in SigByteStrings }
    \cup { <<PrefixUpper>> \o B64Encode(d) : d \in SigDigests }
    \cup { <<PrefixSha256>> \o B64Encode(d) \o <<NotBase64>> : d \in SigDigests }
    \cup { <<NotBase64, PrefixSha256>> \o B64Encode(d) : d \in SigDigests }
    \cup { <<PrefixSha256, NotBase64>>, <<NotBase64>> }

\* verify_signature runs from its call to its return; it takes its three
\* arguments by reference and touches nothing else.
VerifyCall ==
    /\ vpc = "call"
    /\ vresult' = verify_signature(vsecret, vbody, vheader)
    /\ vpc' = "returned"
    /\ UNCHANGED <<vsecret, vbody, vheader>>
    /\ UNCHANGED <<limiterVars, ghostVars, appVars, mwVars, buildVars, tokVars, keyVars, taskVars, textVars>>

SigIdle ==
    /\ vpc = "idle"
    /\ vsecret = ChannelSecret
    /\ vbody = <<>>
    /\ vheader = <<>>
    /\ vresult = FALSE

\* ============================================================== validation
\* char::is_ascii_alphanumeric
is_ascii_alphanumeric(c) == c \in AsciiLetters \cup AsciiDigits

\* (10..=100) of ReplyTokenValidator::validate
TokenMinLength == 10
TokenMaxLength == 100

\* Mutant: the characters are not looked at.
ReplyTokenValid_AnyCharacter(reply_token) ==
    /\ reply_token # <<>>
    /\ ByteLen(reply_token) >= TokenMinLength
    /\ ByteLen(reply_token) <= TokenMaxLength

\* ReplyTokenValidator::validate: TRUE for Ok(()).  len() counts bytes.
ReplyTokenValid(reply_token) ==
    /\ reply_token # <<>>
    /\ ByteLen(reply_token) >= TokenMinLength
    /\ ByteLen(reply_token) <= TokenMaxLength
    /\ \A i \in 1..Len(reply_token) :
          is_ascii_alphanumeric(reply_token[i]) \/ reply_token[i] \in {"_", "-"}

\* ReplyTokenValidator::validate runs from its call to its return; it reads
\* its argument and touches nothing else.
ValidateCall ==
    /\ tpc = "call"
    /\ tresult' = ReplyTokenValid(ttoken)
    /\ tpc' = "returned"
    /\ UNCHANGED ttoken
    /\ UNCHANGED <<limiterVars, ghostVars, appVars, mwVars, sigVars, buildVars, keyVars, taskVars, textVars>>

TokIdle ==
    /\ tpc = "idle"
    /\ ttoken = <<>>
    /\ tresult = FALSE

\* SensitiveDataMasker::mask_user_id: &user_id[..3] and &user_id[len - 3..]
\* panic when the byte index is inside a character.
MaskUserIdPanics(user_id) ==
    /\ ByteLen(user_id) > 6
    /\ \/ ~is_char_boundary(user_id, 3)
       \/ ~is_char_boundary(user_id, ByteLen(user_id) - 3)

\* char::to_lowercase of the characters the inputs use: the ASCII letters
\* have a lower-case form, the other characters are their own.
UpperCase ==
    <<"A", "B", "C", "D", "E", "F", "G", "H", "I", "J", "K", "L", "M",
      "N", "O", "P", "Q", "R", "S", "T", "U", "V", "W", "X", "Y", "Z">>
LowerCase ==
    <<"a", "b", "c", "d", "e", "f", "g", "h", "i", "j", "k", "l", "m",
      "n", "o", "p", "q", "r", "s", "t", "u", "v", "w", "x", "y", "z">>

Lower(c) ==
    IF \E i \in 1..26 : UpperCase[i] = c
    THEN LowerCase[CHOOSE i \in 1..26 : UpperCase[i] = c]
    ELSE c

to_lowercase(str) == [i \in 1..Len(str) |-> Lower(str[i])]

is_whitespace(c) == c \in {" ", "\n", "\t", "\r"}

\* char::is_control
is_control(c) == c \in {"\n", "\t", "\r", "U+0007"}

RECURSIVE trim_start(_)
trim_start(str) ==
    IF str # <<>> /\ is_whitespace(Head(str)) THEN trim_start(Tail(str)) ELSE str

RECURSIVE trim_end(_)
trim_end(str) ==
    IF str # <<>> /\ is_whitespace(str[Len(str)])
    THEN trim_end(SubSeq(str, 1, Len(str) - 1))
    ELSE str

trim(str) == trim_end(trim_start(str))

\* str::contains
Contains(str, sub) ==
    \E i \in 0..(Len(str) - Len(sub)) : SubSeq(str, i + 1, i + Len(sub)) = sub

\* str::strip_prefix
strip_prefix(str, pre) ==
    IF Len(str) >= Len(pre) /\ SubSeq(str, 1, Len(pre)) = pre
    THEN [some |-> TRUE, rest |-> SubSeq(str, Len(pre) + 1, Len(str))]
    ELSE [some |-> FALSE, rest |-> <<>>]

\* TextValidator::default().forbidden_words
ForbiddenWords ==
    { <<"s", "p", "a", "m">>, <<"U+5783", "U+573E">>, <<"U+5EE3", "U+544A">> }

\* TextValidator::new().max_length(1000) of handle_message_event
TextMaxLength == 1000

\* TextValidator::validate: TRUE for Ok(()).
TextValid(text) ==
    \/ text = <<>>
    \/ /\ Len(text) <= TextMaxLength
       /\ \A w \in ForbiddenWords : ~Contains(to_lowercase(text), w)
       /\ \A i \in 1..Len(text) :
             ~(is_control(text[i]) /\ text[i] \notin {"\n", "\r", "\t"})

\* ================================================================ messages
\* OutgoingMessage::text, OutgoingMessage::sticker.  A fixed text of the
\* program is one named character.
OutText(text) == [type |-> "text", text |-> text]
OutSticker(package_id, sticker_id) ==
    [type |-> "sticker", package_id |-> package_id, sticker_id |-> sticker_id]

Greeting == <<"[greeting]">>
HelpText == <<"[help]">>
TimePrefix == <<"[time:]">>
EchoPrefix == <<"[echo:]">>
Fallback == <<"[fallback]">>
Refusal == <<"[invalid-content]">>
WelcomeFollow == <<"[welcome]">>
WelcomeJoin == <<"[hello-all]">>
PostbackPrefix == <<"[postback:]">>
GotSticker == <<"[got-sticker]">>
GotImage == <<"[got-image]">>

\* handle_text_message(text) -> Vec<OutgoingMessage>
handle_text_message(text) ==
    LET cmd == trim(to_lowercase(text))
        e1 == strip_prefix(text, <<"e", "c", "h", "o", " ">>)
        e2 == strip_prefix(text, <<"U+56DE", "U+97F3", " ">>)
    IN  IF cmd \in { <<"h", "e", "l", "l", "o">>, <<"h", "i">>,
                     <<"U+4F60", "U+597D">>, <<"U+54C8", "U+56C9">> }
        THEN << OutText(Greeting) >>
        ELSE IF cmd \in { <<"h", "e", "l", "p">>, <<"U+5E6B", "U+52A9">>,
                          <<"U+8AAA", "U+660E">> }
        THEN << OutText(HelpText) >>
        ELSE IF cmd \in { <<"t", "i", "m", "e">>, <<"U+6642", "U+9593">> }
        THEN << OutText(TimePrefix) >>
        ELSE IF cmd \in { <<"s", "t", "i", "c", "k", "e", "r">>,
                          <<"U+8CBC", "U+5716">> }
        THEN << OutSticker(<<"1">>, <<"1">>) >>
        ELSE IF e1.some THEN << OutText(EchoPrefix \o e1.rest) >>
        ELSE IF e2.some THEN << OutText(EchoPrefix \o e2.rest) >>
        ELSE << OutText(Fallback) >>

\* handle_text_message runs from its call to its return; it reads its
\* argument and touches nothing else.
HandleTextCall(text) ==
    /\ hlog' = Append(hlog, [text |-> text, messages |-> handle_text_message(text)])
    /\ UNCHANGED <<limiterVars, ghostVars, appVars, mwVars, sigVars, buildVars, tokVars,
                   keyVars, taskVars>>

TextIdle == hlog = <<>>

\* ================================================================== events
EventTypes == {"message", "follow", "unfollow", "join", "leave", "postback"}

SourceUser(user_id) == [type |-> "user", user_id |-> user_id]

MessageEvent(reply_token, message, source) ==
    [type |-> "message", reply_token |-> reply_token, message |-> message,
     source |-> source]
FollowEvent(reply_token) == [type |-> "follow", reply_token |-> reply_token]
UnfollowEvent == [type |-> "unfollow"]
JoinEvent(reply_token) == [type |-> "join", reply_token |-> reply_token]
LeaveEvent == [type |-> "leave"]
PostbackEvent(reply_token, data) ==
    [type |-> "postback", reply_token |-> reply_token, data |-> data]

TextMessage(text) == [type |-> "text", text |-> text]

\* get_user_id_from_source
get_user_id_from_source(source) ==
    IF "user_id" \in DOMAIN source
    THEN source.user_id
    ELSE <<"u", "n", "k", "n", "o", "w", "n">>

\* handle_message_event, lines 93-118: the messages to reply with.
ResponseMessages(message) ==
    CASE message.type = "text" ->
            IF ~TextValid(message.text)
            THEN << OutText(Refusal) >>
            ELSE handle_text_message(message.text)
      [] message.type = "sticker" -> << OutText(GotSticker) >>
      [] message.type = "image" -> << OutText(GotImage) >>

\* The operations handle_message_event runs for the message, lines 92-118,
\* in call order; an info! line is evaluated when `log` holds.
ResponseOps(message, log) ==
    LET info == IF log THEN <<"info!">> ELSE <<>>
    IN  CASE message.type = "text" ->
                IF ~TextValid(message.text)
                THEN <<"TextValidator::validate">>
                ELSE <<"TextValidator::validate">> \o info \o <<"handle_text_message">>
          [] message.type = "sticker" -> info
          [] message.type = "image" -> info

\* process_event up to its first suspension point: what it does with the
\* event before it returns or awaits reply_message.
\*   "panic": the task unwinds;  "err": returns Err;  "ok": returns Ok(());
\*   "reply": calls reply_message(token, messages) and awaits it.
\* ops lists the operations it ran on the way, in call order.
Outcome(kind, token, messages, ops) ==
    [kind |-> kind, token |-> token, messages |-> messages, ops |-> ops]

\* Mutant: the content is validated and classified before the reply token.
handle_message_event_ContentFirst(event, log) ==
    LET msgs == ResponseMessages(event.message)
        ops == ResponseOps(event.message, log)
    IN  IF ~ReplyTokenValid(event.reply_token)
        THEN Outcome("err", <<>>, <<>>, ops \o <<"ReplyTokenValidator::validate">>)
        ELSE Outcome("reply", event.reply_token, msgs,
                     ops \o <<"ReplyTokenValidator::validate", "reply_message">>)

handle_message_event(event, log) ==
    IF ~ReplyTokenValid(event.reply_token)
    THEN Outcome("err", <<>>, <<>>, <<"ReplyTokenValidator::validate">>)
    ELSE IF log /\ MaskUserIdPanics(get_user_id_from_source(event.source))
    THEN Outcome("panic", <<>>, <<>>, <<"ReplyTokenValidator::validate", "mask_user_id">>)
    ELSE LET msgs == ResponseMessages(event.message)
             ops == <<"ReplyTokenValidator::validate">>
                    \o (IF log THEN <<"mask_user_id", "info!">> ELSE <<>>)
                    \o ResponseOps(event.message, log)
         IN  IF msgs # <<>>
             THEN Outcome("reply", event.reply_token, msgs, ops \o <<"reply_message">>)
             ELSE Outcome("ok", <<>>, <<>>, ops)

\* Mutant: the Postback arm replies with its fixed prefix alone.
EventArm_DropsData(event, log) ==
    LET info == IF log THEN <<"info!">> ELSE <<>>
    IN  CASE event.type = "message" -> handle_message_event(event, log)
          [] event.type = "follow" ->
                Outcome("reply", event.reply_token, << OutText(WelcomeFollow) >>,
                        info \o <<"reply_message">>)
          [] event.type = "unfollow" -> Outcome("ok", <<>>, <<>>, info)
          [] event.type = "join" ->
                Outcome("reply", event.reply_token, << OutText(WelcomeJoin) >>,
                        info \o <<"reply_message">>)
          [] event.type = "leave" -> Outcome("ok", <<>>, <<>>, info)
          [] event.type = "postback" ->
                Outcome("reply", event.reply_token, << OutText(PostbackPrefix) >>,
                        info \o <<"reply_message">>)

\* The arms of `match event`, lines 36-71, after record_webhook_event.
EventArm(event, log) ==
    LET info == IF log THEN <<"info!">> ELSE <<>>
    IN  CASE event.type = "message" -> handle_message_event(event, log)
          [] event.type = "follow" ->
                Outcome("reply", event.reply_token, << OutText(WelcomeFollow) >>,
                        info \o <<"reply_message">>)
          [] event.type = "unfollow" -> Outcome("ok", <<>>, <<>>, info)
          [] event.type = "join" ->
                Outcome("reply", event.reply_token, << OutText(WelcomeJoin) >>,
                        info \o <<"reply_message">>)
          [] event.type = "leave" -> Outcome("ok", <<>>, <<>>, info)
          [] event.type = "postback" ->
                Outcome("reply", event.reply_token,
                        << OutText(PostbackPrefix \o event.data) >>,
                        info \o <<"reply_message">>)

\* Mutant: Unfollow and Leave are handled by the Follow arm.
process_event_RepliesToAll(event, log) ==
    LET arm == IF event.type \in {"unfollow", "leave"}
               THEN Outcome("reply", <<>>, << OutText(WelcomeFollow) >>,
                            <<"reply_message">>)
               ELSE EventArm(event, log)
    IN  [arm EXCEPT !.ops = <<"record_webhook_event">> \o @]

process_event(event, log) ==
    LET arm == EventArm(event, log)
    IN  [arm EXCEPT !.ops = <<"record_webhook_event">> \o @]

\* ================================================================ pipeline
\* The inputs: reply tokens, user ids, events, bodies, signature headers.
TokenA == Rep("a", 10)
TokenB == Rep("b", 10)
TokenShort == Rep("a", 9)
UserAscii == <<"U", "0", "1", "2", "3", "a", "b">>
UserMultibyte == <<"a", "b", "U+00E9", "c", "d", "e", "f">>
Hello == <<"h", "e", "l", "l", "o">>

AppEvents ==
    { MessageEvent(TokenA, TextMessage(Hello), SourceUser(UserAscii)),
      MessageEvent(TokenShort, TextMessage(Hello), SourceUser(UserAscii)),
      MessageEvent(TokenB, TextMessage(Hello), SourceUser(UserMultibyte)),
      MessageEvent(TokenShort, TextMessage(Hello), SourceUser(UserMultibyte)),
      FollowEvent(TokenB),
      UnfollowEvent,
      LeaveEvent,
      PostbackEvent(TokenA, <<"d">>) }

Batches(E) == UNION { [1..n -> E] : n \in 0..MaxBatch }

\* A body is bytes that are no JSON text (or no bytes at all), a JSON object
\* without the `events` field, or a JSON object with the events it lists; an
\* event of the wire may have a type the program does not know.  The read of
\* a body may also fail before its end.
BodySyntaxError == [json |-> "syntax"]
BodyEmpty == [json |-> "empty"]
BodyMissingField == [json |-> "missing-field"]
BodyUnreadable == [json |-> "unreadable"]
BodyOf(events) == [json |-> "object", events |-> events]
UnknownEvent == [type |-> "beacon"]

AppBodies ==
    {BodySyntaxError, BodyEmpty, BodyMissingField, BodyUnreadable, BodyOf(<<UnknownEvent>>)}
    \cup {BodyOf(b) : b \in Batches(AppEvents)}

HeaderAbsent == [kind |-> "absent"]
HeaderOpaque == [kind |-> "opaque"]
HeaderText(text) == [kind |-> "text", text |-> text]

\* The headers a caller may send with `body`.
AppHeaders(body) ==
    { HeaderAbsent, HeaderOpaque,
      HeaderText(Sign(ChannelSecret, body)),
      HeaderText(Sign("other_secret", body)),
      HeaderText(Sign(ChannelSecret, BodyOf(<<>>))),
      HeaderText(B64Encode(HmacSha256(ChannelSecret, body))),
      HeaderText(<<PrefixSha256, NotBase64>>),
      HeaderText(<<PrefixSha256>> \o B64Encode(<<HmacSha256(ChannelSecret, body)[1]>>)) }

\* A request: its route, its x-line-signature header, its body, whether it
\* says content-type: application/json, and who sent it.
Request(method, path, sig, body, json_content_type, caller) ==
    [method |-> method, path |-> path, sig |-> sig, body |-> body,
     json_content_type |-> json_content_type, caller |-> caller]

\* Who sends a body: every caller sends the empty batch, one caller the rest.
Callers(body) == IF body = BodyOf(<<>>) THEN Keys ELSE {"k1"}

AppRequests ==
    UNION { { Request("POST", "/webhook", h, b, TRUE, k) : h \in AppHeaders(b), k \in Callers(b) } :
              b \in AppBodies }
    \cup { Request("POST", "/webhook", HeaderText(Sign(ChannelSecret, b)), b, FALSE, k) :
             b \in {BodyOf(<<>>), BodySyntaxError}, k \in {"k1"} }
    \cup { Request("GET", "/health", h, BodyEmpty, FALSE, k) :
             h \in AppHeaders(BodyEmpty), k \in {"k1"} }

\* serde_json on the body bytes: its syntax errors (also an early end of the
\* input) are answered 400, its data errors (a missing field, an unknown
\* `type`) 422.
Deserialize(body) ==
    IF body.json \in {"syntax", "empty"}
    THEN [ok |-> FALSE, status |-> 400, events |-> <<>>]
    ELSE IF body.json = "missing-field"
    THEN [ok |-> FALSE, status |-> 422, events |-> <<>>]
    ELSE IF \E i \in 1..Len(body.events) : body.events[i].type \notin EventTypes
    THEN [ok |-> FALSE, status |-> 422, events |-> <<>>]
    ELSE [ok |-> TRUE, status |-> 0, events |-> body.events]

\* Json<WebhookRequest> as FromRequest: the content type is looked at first
\* (415 when it is not JSON), then the body is deserialized.
JsonExtractor(r) ==
    IF ~r.json_content_type
    THEN [ok |-> FALSE, status |-> 415, events |-> <<>>]
    ELSE Deserialize(r.body)

Answer(code, text) == [status |-> code, body |-> text]

\* Mutant: the middleware lets every request with a readable header through.
SignatureCheck_NoVerify(r) ==
    IF r.path = "/health" THEN Answer(0, "")
    ELSE IF r.sig.kind = "absent" THEN Answer(400, "Missing signature header")
    ELSE IF r.sig.kind = "opaque" THEN Answer(400, "Invalid signature header")
    ELSE IF r.body.json = "unreadable" THEN Answer(400, "Failed to read body")
    ELSE Answer(0, "")

\* Mutant: /health is not exempt from the signature check.
SignatureCheck_NoBypass(r) ==
    IF r.sig.kind = "absent" THEN Answer(400, "Missing signature header")
    ELSE IF r.sig.kind = "opaque" THEN Answer(400, "Invalid signature header")
    ELSE IF r.body.json = "unreadable" THEN Answer(400, "Failed to read body")
    ELSE IF ~verify_signature(ChannelSecret, r.body, r.sig.text)
    THEN Answer(401, "Invalid signature")
    ELSE Answer(0, "")

\* signature_middleware: the response it answers with, or status 0 when it
\* calls next.run.
SignatureCheck(r) ==
    IF r.path = "/health" THEN Answer(0, "")
    ELSE IF r.sig.kind = "absent" THEN Answer(400, "Missing signature header")
    ELSE IF r.sig.kind = "opaque" THEN Answer(400, "Invalid signature header")
    ELSE IF r.body.json = "unreadable" THEN Answer(400, "Failed to read body")
    ELSE IF ~verify_signature(ChannelSecret, r.body, r.sig.text)
    THEN Answer(401, "Invalid signature")
    ELSE Answer(0, "")

\* Mutant: the loop takes the events from the back.
IterNext_Back(events) ==
    [item |-> events[Len(events)], rest |-> SubSeq(events, 1, Len(events) - 1)]

\* `for event in payload.events`: vec::IntoIter::next
IterNext(events) == [item |-> Head(events), rest |-> Tail(events)]

NoRequest == Request("GET", "/health", HeaderAbsent, BodyEmpty, FALSE, "k1")

\* A request arrives (one connection at a time).
Receive(r) ==
    /\ rpc = "idle"
    /\ http < MaxHttp
    /\ http' = http + 1
    /\ req' = r
    /\ rpc' = "received"
    /\ status' = 0
    /\ respBody' = ""
    /\ extracted' = FALSE
    /\ decoded' = <<>>
    /\ iter' = <<>>
    /\ dispatched' = <<>>
    /\ results' = <<>>
    /\ replyLog' = <<>>
    /\ trace' = <<>>
    /\ UNCHANGED <<logInfo, admitted>>
    /\ UNCHANGED <<limiterVars, ghostVars, mwVars, sigVars, buildVars, tokVars, keyVars, taskVars, textVars>>

\* signature_middleware, server.rs lines 62-101; next.run routes the request
\* to health_check or to handle_webhook.
SignatureMiddleware ==
    /\ rpc = "received"
    /\ LET answer == SignatureCheck(req)
       IN  IF answer.status = 0
           THEN /\ rpc' = IF req.path = "/health" THEN "health" ELSE "handler"
                /\ admitted' = IF req.path = "/health" THEN admitted
                               ELSE [admitted EXCEPT ![req.caller] = @ + 1]
                /\ UNCHANGED <<status, respBody>>
           ELSE /\ rpc' = "done"
                /\ status' = answer.status
                /\ respBody' = answer.body
                /\ UNCHANGED admitted
    /\ UNCHANGED <<logInfo, http, req, extracted, decoded, iter, dispatched, results,
                   replyLog, trace>>
    /\ UNCHANGED <<limiterVars, ghostVars, mwVars, sigVars, buildVars, tokVars, keyVars, taskVars, textVars>>

\* health_check, server.rs lines 58-60
HealthCheck ==
    /\ rpc = "health"
    /\ rpc' = "done"
    /\ status' = 200
    /\ respBody' = "OK"
    /\ UNCHANGED <<logInfo, http, req, extracted, decoded, iter, dispatched, results,
                   replyLog, trace, admitted>>
    /\ UNCHANGED <<limiterVars, ghostVars, mwVars, sigVars, buildVars, tokVars, keyVars, taskVars, textVars>>

\* handle_webhook's Json(payload) extractor, handlers.rs lines 9-13
JsonExtract ==
    /\ rpc = "handler"
    /\ extracted' = TRUE
    /\ LET d == JsonExtractor(req)
       IN  IF d.ok
           THEN /\ decoded' = d.events
                /\ iter' = d.events
                /\ rpc' = "loop"
                /\ UNCHANGED <<status, respBody>>
           ELSE /\ status' = d.status
                /\ respBody' = "JsonRejection"
                /\ rpc' = "done"
                /\ UNCHANGED <<decoded, iter>>
    /\ UNCHANGED <<logInfo, http, req, dispatched, results, replyLog, trace, admitted>>
    /\ UNCHANGED <<limiterVars, ghostVars, mwVars, sigVars, buildVars, tokVars, keyVars, taskVars, textVars>>

\* What a dispatch did: the operations of event number `n`, in call order.
Ops(n, ops) == [i \in 1..Len(ops) |-> [event |-> n, op |-> ops[i]]]

\* handlers.rs lines 15-19: the loop takes the next event and process_event
\* runs until it returns, panics or awaits reply_message.
DispatchEvent ==
    /\ rpc = "loop"
    /\ iter # <<>>
    /\ LET it == IterNext(iter)
           out == process_event(it.item, logInfo)
       IN  /\ iter' = it.rest
           /\ dispatched' = Append(dispatched, it.item)
           /\ trace' = trace \o Ops(Len(dispatched) + 1, out.ops)
           /\ CASE out.kind = "panic" ->
                     /\ rpc' = "aborted"
                     /\ UNCHANGED <<results, replyLog>>
                [] out.kind = "reply" ->
                     /\ rpc' = "reply"
                     /\ replyLog' = Append(replyLog, [token |-> out.token,
                                                      messages |-> out.messages])
                     /\ UNCHANGED results
                [] OTHER ->
                     /\ rpc' = "loop"
                     /\ results' = Append(results, out.kind)
                     /\ UNCHANGED replyLog
    /\ UNCHANGED <<logInfo, http, req, status, respBody, extracted, decoded, admitted>>
    /\ UNCHANGED <<limiterVars, ghostVars, mwVars, sigVars, buildVars, tokVars, keyVars, taskVars, textVars>>

\* Mutant: a failed reply_message is sent once more.
ReplyReturns_Retry(ok) ==
    /\ rpc = "reply"
    /\ IF ok
       THEN /\ rpc' = "loop"
            /\ results' = Append(results, "ok")
            /\ UNCHANGED <<replyLog, trace>>
       ELSE /\ Len(replyLog) < 2 * MaxBatch
            /\ rpc' = "reply"
            /\ replyLog' = Append(replyLog, replyLog[Len(replyLog)])
            /\ trace' = Append(trace, [event |-> Len(dispatched), op |-> "reply_message"])
            /\ UNCHANGED results
    /\ UNCHANGED <<logInfo, http, req, status, respBody, extracted, decoded, iter,
                   dispatched, admitted>>
    /\ UNCHANGED <<limiterVars, ghostVars, mwVars, sigVars, buildVars, tokVars, keyVars, taskVars, textVars>>

\* reply_message(..).await? returns: Ok(()) or a LineApiError (also a timeout).
ReplyReturns(ok) ==
    /\ rpc = "reply"
    /\ rpc' = "loop"
    /\ results' = Append(results, IF ok THEN "ok" ELSE "err")
    /\ UNCHANGED <<logInfo, http, req, status, respBody, extracted, decoded, iter,
                   dispatched, replyLog, trace, admitted>>
    /\ UNCHANGED <<limiterVars, ghostVars, mwVars, sigVars, buildVars, tokVars, keyVars, taskVars, textVars>>

\* Mutant: the handler answers without waiting for the loop to end.
Respond_Early ==
    /\ rpc \in {"loop", "reply"}
    /\ rpc' = "done"
    /\ status' = 200
    /\ respBody' = ""
    /\ UNCHANGED <<logInfo, http, req, extracted, decoded, iter, dispatched, results,
                   replyLog, trace, admitted>>
    /\ UNCHANGED <<limiterVars, ghostVars, mwVars, sigVars, buildVars, tokVars, keyVars, taskVars, textVars>>

\* handlers.rs line 21: StatusCode::OK
Respond ==
    /\ rpc = "loop"
    /\ iter = <<>>
    /\ rpc' = "done"
    /\ status' = 200
    /\ respBody' = ""
    /\ UNCHANGED <<logInfo, http, req, extracted, decoded, iter, dispatched, results,
                   replyLog, trace, admitted>>
    /\ UNCHANGED <<limiterVars, ghostVars, mwVars, sigVars, buildVars, tokVars, keyVars, taskVars, textVars>>

\* The response is written (or the panicked task is dropped) and the
\* request's state goes away.
Close ==
    /\ rpc \in {"done", "aborted"}
    /\ rpc' = "idle"
    /\ req' = NoRequest
    /\ status' = 0
    /\ respBody' = ""
    /\ extracted' = FALSE
    /\ decoded' = <<>>
    /\ iter' = <<>>
    /\ dispatched' = <<>>
    /\ results' = <<>>
    /\ replyLog' = <<>>
    /\ trace' = <<>>
    /\ UNCHANGED <<logInfo, http, admitted>>
    /\ UNCHANGED <<limiterVars, ghostVars, mwVars, sigVars, buildVars, tokVars, keyVars, taskVars, textVars>>

AppIdle ==
    /\ http = 0
    /\ req = NoRequest
    /\ rpc = "idle"
    /\ status = 0
    /\ respBody = ""
    /\ extracted = FALSE
    /\ decoded = <<>>
    /\ iter = <<>>
    /\ dispatched = <<>>
    /\ results = <<>>
    /\ replyLog = <<>>
    /\ trace = <<>>
    /\ admitted = [k \in Keys |-> 0]

\* ================================================ extract_rate_limit_key
\* A header of the request: headers().get(name) is Some (present), and
\* HeaderValue::to_str is Ok (readable: visible ASCII, space and tab only).
NoHeader == [present |-> FALSE, readable |-> FALSE, text |-> <<>>]
OpaqueHeader == [present |-> TRUE, readable |-> FALSE, text |-> <<>>]
TextHeader(str) == [present |-> TRUE, readable |-> TRUE, text |-> str]

\* request.extensions().get::<ConnectInfo<SocketAddr>>()
NoConnectInfo == [some |-> FALSE, ip |-> <<>>]
ConnectInfo(ip) == [some |-> TRUE, ip |-> ip]

\* The literal of line 199.
Unknown == <<"u", "n", "k", "n", "o", "w", "n">>

\* str::split(sep).next(): the text before the first separator, the whole
\* text when there is none.
RECURSIVE SplitNext(_, _)
SplitNext(str, sep) ==
    IF str = <<>> \/ Head(str) = sep
    THEN <<>>
    ELSE <<Head(str)>> \o SplitNext(Tail(str), sep)

\* Mutant: X-Real-IP is looked at before X-Forwarded-For.
extract_rate_limit_key_RealIpFirst(request) ==
    IF request.x_real_ip.present /\ request.x_real_ip.readable
    THEN request.x_real_ip.text
    ELSE IF request.x_forwarded_for.present /\ request.x_forwarded_for.readable
    THEN trim(SplitNext(request.x_forwarded_for.text, ","))
    ELSE IF request.connect_info.some
    THEN request.connect_info.ip
    ELSE Unknown

\* rate_limit.rs lines 177-200.
extract_rate_limit_key(request) ==
    IF request.x_forwarded_for.present /\ request.x_forwarded_for.readable
    THEN trim(SplitNext(request.x_forwarded_for.text, ","))
    ELSE IF request.x_real_ip.present /\ request.x_real_ip.readable
    THEN request.x_real_ip.text
    ELSE IF request.connect_info.some
    THEN request.connect_info.ip
    ELSE Unknown

\* extract_rate_limit_key runs from its call to its return; it reads its
\* argument and touches nothing else.
ExtractCall ==
    /\ kpc = "call"
    /\ kresult' = extract_rate_limit_key(krequest)
    /\ kpc' = "returned"
    /\ UNCHANGED <<krequest, connAdmitted>>
    /\ UNCHANGED <<limiterVars, ghostVars, appVars, mwVars, sigVars, buildVars, tokVars, taskVars, textVars>>

\* The addresses of the clients; each is written as one character.
Addresses == {<<"a">>, <<"b">>}

NoKeyRequest ==
    [x_forwarded_for |-> NoHeader, x_real_ip |-> NoHeader, connect_info |-> NoConnectInfo]

\* No limiter has been constructed and no cleanup task spawned.
TaskIdle ==
    /\ limiters = <<>>
    /\ sweepTasks = <<>>

\* tokio::spawn of lines 91-97: the task of a new limiter starts at its
\* interval.tick().await; the JoinHandle is dropped, which detaches the task.
SpawnCleanup(tasks) == Append(tasks, "tick")

\* RateLimiter::new, lines 82-100: the value returned is the one handle of a
\* new limiter.
RateLimiterNew ==
    /\ limiters' = Append(limiters, 1)
    /\ sweepTasks' = SpawnCleanup(sweepTasks)
    /\ UNCHANGED <<limiterVars, ghostVars, appVars, mwVars, sigVars, buildVars, tokVars,
                   keyVars, textVars>>

\* #[derive(Clone)] of line 75: one more handle of the same limiter (the Arc
\* of its map is cloned); nothing is spawned.
RateLimiterClone(i) ==
    /\ limiters[i] > 0
    /\ limiters[i] < MaxHandles
    /\ limiters' = [limiters EXCEPT ![i] = @ + 1]
    /\ UNCHANGED sweepTasks
    /\ UNCHANGED <<limiterVars, ghostVars, appVars, mwVars, sigVars, buildVars, tokVars,
                   keyVars, textVars>>

\* A handle goes out of scope.  RateLimiter has no Drop impl and keeps no
\* JoinHandle: the task is not told, and its own Arc keeps the map alive.
RateLimiterDrop(i) ==
    /\ limiters[i] > 0
    /\ limiters' = [limiters EXCEPT ![i] = @ - 1]
    /\ UNCHANGED sweepTasks
    /\ UNCHANGED <<limiterVars, ghostVars, appVars, mwVars, sigVars, buildVars, tokVars,
                   keyVars, textVars>>

\* The task's loop, lines 93-96: interval.tick().await completes, then
\* cleanup_expired_entries runs on the limiter's map, then the loop starts
\* over; the loop has no exit.  (The map of each limiter is not followed
\* here: see SweepStart..SweepDone for the limiter under test.)
CleanupTick(i) ==
    /\ sweepTasks[i] = "tick"
    /\ sweepTasks' = [sweepTasks EXCEPT ![i] = "cleanup"]
    /\ UNCHANGED limiters
    /\ UNCHANGED <<limiterVars, ghostVars, appVars, mwVars, sigVars, buildVars, tokVars,
                   keyVars, textVars>>

CleanupRun(i) ==
    /\ sweepTasks[i] = "cleanup"
    /\ sweepTasks' = [sweepTasks EXCEPT ![i] = "tick"]
    /\ UNCHANGED limiters
    /\ UNCHANGED <<limiterVars, ghostVars, appVars, mwVars, sigVars, buildVars, tokVars,
                   keyVars, textVars>>

KeyIdle ==
    /\ kpc = "idle"
    /\ krequest = NoKeyRequest
    /\ kresult = <<>>
    /\ connAdmitted = [c \in Addresses |-> 0]

\* ================================================ rate_limit_middleware
\* Duration::as_secs: the whole seconds, the fraction dropped.
as_secs(d) == d \div TicksPerSec

\* The `match` of both middlewares on the RateLimitResult (lines 210-240,
\* 255-288): on Allowed the response of next.run with two headers added
\* (status 0: whatever next.run answered), on Exceeded a 429 with
\* Retry-After and X-RateLimit-Remaining: 0.  A call that panicked leaves
\* no response.
RateLimitResponse(result) ==
    CASE result.kind = "Allowed" ->
            [status |-> 0,
             x_ratelimit_remaining |-> result.remaining,
             x_ratelimit_reset |-> as_secs(result.reset_after)]
      [] result.kind = "Exceeded" ->
            [status |-> 429,
             retry_after |-> as_secs(result.retry_after),
             x_ratelimit_remaining |-> 0]
      [] OTHER -> [status |-> -1]

NoResponse == [status |-> -1]

\* rate_limit.rs lines 203-241: RateLimiter::new(RateLimitConfig::default())
\* in the function body, which spawns that limiter's cleanup task, then one
\* check_rate_limit on that limiter; on Allowed the request goes on to
\* next.run.  The limiter is a local: its one handle is dropped when the
\* function returns.
RateLimitMiddleware(k) ==
    /\ mwAdmitted[k] <= DefaultMaxRequests
    /\ LET rate_limiter == << >>
           out == IF k \in DOMAIN rate_limiter
                  THEN LockedBranch(DefaultConfig, rate_limiter[k], clock, clock)
                  ELSE InsertBranch(DefaultConfig, clock)
       IN  /\ mwLast' = [key |-> k, result |-> out.result]
           /\ mwResponse' = RateLimitResponse(out.result)
           /\ mwAdmitted' = [mwAdmitted EXCEPT
                                ![k] = IF out.result.kind = "Allowed" THEN @ + 1 ELSE @]
    /\ limiters' = Append(limiters, 0)
    /\ sweepTasks' = SpawnCleanup(sweepTasks)
    /\ UNCHANGED mwResponded
    /\ UNCHANGED <<limiterVars, ghostVars, appVars, sigVars, buildVars, tokVars, keyVars, textVars>>

\* The closure of create_rate_limit_middleware, lines 250-290, after its
\* check_rate_limit on the captured limiter returned: it builds the response
\* (the 100 ms sleep of line 280 changes nothing of it).
MiddlewareRespond ==
    /\ pc["p1"] = "idle"
    /\ mwResponded < calls
    /\ mwResponded' = calls
    /\ mwResponse' = RateLimitResponse(last.result)
    /\ UNCHANGED <<mwAdmitted, mwLast>>
    /\ UNCHANGED <<limiterVars, ghostVars, appVars, sigVars, buildVars, tokVars, keyVars, taskVars, textVars>>

\* The closure of create_rate_limit_middleware, lines 250-290, as one step
\* of a caller that is alone: the key is extracted from the request, the
\* captured limiter is asked, and the response is built; on Allowed the
\* request goes on to next.run.
ClosureMiddleware(request) ==
    /\ pc["p1"] = "idle"
    /\ LET k == extract_rate_limit_key(request)
           out == IF k \in DOMAIN entries
                  THEN LockedBranch(config, entries[k], clock, clock)
                  ELSE InsertBranch(config, clock)
           ip == request.connect_info.ip
       IN  /\ entries' = Put(entries, k, out.entry)
           /\ mwLast' = [key |-> k, result |-> out.result]
           /\ mwResponse' = RateLimitResponse(out.result)
           /\ connAdmitted' =
                 IF request.connect_info.some /\ ip \in Addresses
                    /\ out.result.kind = "Allowed"
                 THEN [connAdmitted EXCEPT ![ip] = @ + 1]
                 ELSE connAdmitted
           /\ krequest' = request
           /\ kresult' = k
    /\ calls' = calls + 1
    /\ UNCHANGED <<kpc, mwAdmitted, mwResponded>>
    /\ UNCHANGED <<clock, pc, key, now, last, sweepPc, sweepNow, toScan, toRemove>>
    /\ UNCHANGED <<gFirst, gCalls, gAllowed, gTrack, gSwept, gHist, gShadow, gShadowLast>>
    /\ UNCHANGED <<appVars, sigVars, buildVars, tokVars, taskVars, textVars>>

MwIdle ==
    /\ mwAdmitted = [k \in Keys |-> 0]
    /\ mwLast = [key |-> "k1", result |-> NoResult]
    /\ mwResponse = NoResponse
    /\ mwResponded = 0

vars == <<limiterVars, ghostVars, appVars, mwVars, sigVars, buildVars, tokVars, keyVars, taskVars, textVars>>

\* The histories are kept by the specifications that ask for them.
NoHistory == gTrack = {}

Init ==
    /\ LimiterInit /\ NoHistory /\ BuildInit /\ AppIdle /\ MwIdle /\ SigIdle /\ TokIdle /\ KeyIdle /\ TaskIdle /\ TextIdle
    /\ logInfo = TRUE

\* Request tasks on the multi-threaded runtime and the cleanup task.
Next ==
    \/ \E p \in Procs, k \in Keys : calls < MaxCalls /\ CheckBegin(p, k)
    \/ \E p \in Procs : CheckLookup(p)
    \/ \E p \in Procs : CheckInsert(p)
    \/ SweepStart
    \/ \E k \in Keys : SweepScan(k)
    \/ SweepRemove
    \/ SweepDone
    \/ Tick

Spec == Init /\ [][Next]_vars

\* A sequential execution: one caller, and a sweep runs between two calls,
\* never during one.  The clock advances at any point.
SeqNext ==
    \/ \E k \in Keys :
          calls < MaxSeqCalls /\ sweepPc = "idle" /\ CheckBegin("p1", k)
    \/ CheckLookup("p1")
    \/ CheckInsert("p1")
    \/ pc["p1"] = "idle" /\ SweepStart
    \/ \E k \in Keys : SweepScan(k)
    \/ SweepRemove
    \/ SweepDone
    \/ Tick

SeqSpec == Init /\ [][SeqNext]_vars

\* The application of create_app: signature_middleware, then handle_webhook.
\* main.rs enables the info level; a test or another filter may not.
AppInit ==
    /\ LimiterInit /\ NoHistory /\ BuildInit /\ AppIdle /\ MwIdle /\ SigIdle /\ TokIdle /\ KeyIdle /\ TaskIdle /\ TextIdle
    /\ logInfo \in BOOLEAN

AppNext ==
    \/ rpc = "idle" /\ \E r \in AppRequests : Receive(r)
    \/ SignatureMiddleware
    \/ HealthCheck
    \/ JsonExtract
    \/ DispatchEvent
    \/ \E ok \in BOOLEAN : ReplyReturns(ok)
    \/ Respond
    \/ Close

AppSpec == AppInit /\ [][AppNext]_vars

\* The two rate-limit middlewares, one request after another, in one window:
\* rate_limit_middleware, and the closure of create_rate_limit_middleware,
\* which calls check_rate_limit on the limiter it captured.
MwNext ==
    \/ \E k \in Keys : RateLimitMiddleware(k)
    \/ \E k \in Keys : calls < MaxSeqCalls /\ mwResponded = calls /\ CheckBegin("p1", k)
    \/ CheckLookup("p1")
    \/ CheckInsert("p1")
    \/ MiddlewareRespond

MwSpec == Init /\ [][MwNext]_vars

\* The closure of create_rate_limit_middleware alone, one request after
\* another, while time passes.
RetryNext ==
    \/ \E k \in Keys : calls < MaxSeqCalls /\ mwResponded = calls /\ CheckBegin("p1", k)
    \/ CheckLookup("p1")
    \/ CheckInsert("p1")
    \/ MiddlewareRespond
    \/ Tick

RetrySpec == Init /\ [][RetryNext]_vars

\* verify_signature called on its own, with any secret, body and header.
SigInit ==
    /\ LimiterInit /\ NoHistory /\ BuildInit /\ AppIdle /\ MwIdle /\ TokIdle /\ KeyIdle /\ TaskIdle /\ TextIdle /\ logInfo = TRUE
    /\ vpc = "call"
    /\ vsecret \in Secrets
    /\ vbody \in SigBodies
    /\ vheader \in SigHeaders
    /\ vresult = FALSE

SigNext == VerifyCall

SigSpec == SigInit /\ [][SigNext]_vars

\* RateLimiter::new takes any RateLimitConfig; the build checks integer
\* overflow (debug) or wraps (release).  One caller, as in SeqSpec.
Configs ==
    { [max_requests |-> m, window_duration |-> WindowDuration] : m \in 0..MaxRequests }

CfgInit ==
    /\ LimiterInit /\ NoHistory /\ AppIdle /\ MwIdle /\ SigIdle /\ TokIdle /\ KeyIdle /\ TaskIdle /\ TextIdle /\ logInfo = TRUE
    /\ config \in Configs
    /\ overflow_checks \in BOOLEAN

CfgSpec == CfgInit /\ [][SeqNext]_vars

\* The handler's dispatch alone, of correctly signed webhook requests.
SignedRequests(E) ==
    { Request("POST", "/webhook", HeaderText(Sign(ChannelSecret, BodyOf(b))), BodyOf(b),
              TRUE, "k1") : b \in Batches(E) }

\* The Message events of every kind of text.
TextAtLimit == Rep("a", TextMaxLength)
TextTooLong == Rep("a", TextMaxLength + 1)
TextForbidden == <<"x", "s", "p", "a", "m">>
TextForbiddenWide == <<"U+5783", "U+573E">>
TextBell == <<"a", "U+0007">>
TextNewline == <<"a", "\n", "b">>

\* A text that begins with "echo ".
EchoInput(remainder) == <<"e", "c", "h", "o", " ">> \o remainder

DispatchTexts ==
    {Hello, <<>>, TextAtLimit, TextTooLong, TextForbidden, TextForbiddenWide, TextBell,
     TextNewline, EchoInput(<<>>), EchoInput(<<"H", "i", " ", "x">>)}

TextEvents ==
    { MessageEvent(TokenA, TextMessage(t), SourceUser(UserAscii)) : t \in DispatchTexts }
    \cup { MessageEvent(TokenB, TextMessage(TextBell), SourceUser(UserMultibyte)),
           MessageEvent(TokenB, TextMessage(EchoInput(<<"x">>)), SourceUser(UserMultibyte)),
           MessageEvent(TokenShort, TextMessage(TextBell), SourceUser(UserAscii)) }

TextRequests == SignedRequests(TextEvents)

TextNext ==
    \/ rpc = "idle" /\ \E r \in TextRequests : Receive(r)
    \/ SignatureMiddleware
    \/ JsonExtract
    \/ DispatchEvent
    \/ \E ok \in BOOLEAN : ReplyReturns(ok)
    \/ Respond
    \/ Close

TextSpec == AppInit /\ [][TextNext]_vars

\* The events answered with a fixed reply, beside one of each other kind.
ReplyEvents ==
    { FollowEvent(TokenA),
      JoinEvent(TokenB),
      PostbackEvent(TokenA, <<"d">>),
      PostbackEvent(TokenShort, <<"x", "y">>),
      UnfollowEvent,
      MessageEvent(TokenA, TextMessage(Hello), SourceUser(UserAscii)) }

ReplyRequests == SignedRequests(ReplyEvents)

ReplyNext ==
    \/ rpc = "idle" /\ \E r \in ReplyRequests : Receive(r)
    \/ SignatureMiddleware
    \/ JsonExtract
    \/ DispatchEvent
    \/ \E ok \in BOOLEAN : ReplyReturns(ok)
    \/ Respond
    \/ Close

ReplySpec == AppInit /\ [][ReplyNext]_vars

\* The limiter with its cleanup task alive, in a sequential execution: the
\* task spawned by RateLimiter::new loops on interval.tick() for ever, the
\* runtime schedules it, a call that has begun runs to its return, and the
\* clock advances.
LiveConfigs ==
    { [max_requests |-> MaxRequests, window_duration |-> w] : w \in 1..WindowDuration }

LiveInit ==
    /\ LimiterInit /\ NoHistory /\ AppIdle /\ MwIdle /\ SigIdle /\ TokIdle /\ KeyIdle /\ TaskIdle /\ TextIdle /\ logInfo = TRUE
    /\ config \in LiveConfigs
    /\ overflow_checks = TRUE

LiveNext ==
    \/ \E k \in Keys :
          calls < MaxLiveCalls /\ sweepPc = "idle" /\ CheckBegin("p1", k)
    \/ CheckLookup("p1")
    \/ CheckInsert("p1")
    \/ pc["p1"] = "idle" /\ SweepStart
    \/ \E k \in Keys : SweepScan(k)
    \/ SweepRemove
    \/ SweepDone
    \/ Tick

LiveSpec ==
    /\ LiveInit
    /\ [][LiveNext]_vars
    /\ WF_vars(Tick)
    /\ WF_vars(pc["p1"] = "idle" /\ SweepStart)
    /\ \A k \in Keys : WF_vars(SweepScan(k))
    /\ WF_vars(SweepRemove)
    /\ WF_vars(SweepDone)
    /\ WF_vars(CheckLookup("p1"))
    /\ WF_vars(CheckInsert("p1"))

\* One caller and the cleanup task, which runs at any point, also while a
\* call is under way; beside them the limiter that never sweeps.
ShadowInit ==
    /\ LimiterInit /\ BuildInit /\ AppIdle /\ MwIdle /\ SigIdle /\ TokIdle /\ KeyIdle /\ TaskIdle /\ TextIdle /\ logInfo = TRUE
    /\ gTrack = {"shadow"}

ShadowNext ==
    \/ \E k \in Keys : calls < MaxSeqCalls /\ CheckBegin("p1", k)
    \/ CheckLookup("p1")
    \/ CheckInsert("p1")
    \/ SweepStart
    \/ \E k \in Keys : SweepScan(k)
    \/ SweepRemove
    \/ SweepDone
    \/ Tick

ShadowSpec == ShadowInit /\ [][ShadowNext]_vars

\* ReplyTokenValidator::validate called on its own, with tokens around both
\* ends of the length range and of every kind of character.
TokenLengths ==
    {0, 1, TokenMinLength - 1, TokenMinLength, TokenMinLength + 1,
     TokenMaxLength - 1, TokenMaxLength, TokenMaxLength + 1}

TokenChars == {"a", "H", "0", "_", "-", " ", "!", "U+00E9"}

Tokens ==
    {<<>>} \cup { Rep(c, n - 1) \o <<d>> :
                     c \in TokenChars, d \in TokenChars, n \in TokenLengths \ {0} }

TokInit ==
    /\ LimiterInit /\ NoHistory /\ BuildInit /\ AppIdle /\ MwIdle /\ SigIdle /\ logInfo = TRUE
    /\ KeyIdle /\ TaskIdle /\ TextIdle
    /\ tpc = "call"
    /\ ttoken \in Tokens
    /\ tresult = FALSE

TokNext == ValidateCall

TokSpec == TokInit /\ [][TokNext]_vars

\* handle_text_message called on its own, a few times, with the commands,
\* an echo text and another text, each in several spellings.
Upper(c) ==
    IF \E i \in 1..26 : LowerCase[i] = c
    THEN UpperCase[CHOOSE i \in 1..26 : LowerCase[i] = c]
    ELSE c

Spellings(word) ==
    {word,
     [i \in 1..Len(word) |-> Upper(word[i])],
     [i \in 1..Len(word) |-> IF i = 1 THEN Upper(word[i]) ELSE word[i]]}

HandleWords ==
    {Hello,
     <<"h", "e", "l", "p">>,
     <<"t", "i", "m", "e">>,
     <<"s", "t", "i", "c", "k", "e", "r">>,
     EchoInput(<<"o", "k">>),
     <<"o", "k">>,
     <<"U+4F60", "U+597D">>,
     <<" ", "h", "i", " ">>}

HandleTexts == UNION { Spellings(word) : word \in HandleWords }

HandleNext == \E text \in HandleTexts : Len(hlog) < MaxTextCalls /\ HandleTextCall(text)

HandleSpec == Init /\ [][HandleNext]_vars

\* The limiters of a process and their cleanup tasks: limiters are
\* constructed, cloned and dropped, requests pass rate_limit_middleware, and
\* the runtime runs the spawned tasks.
TaskNext ==
    \/ Len(limiters) < MaxLimiters /\ RateLimiterNew
    \/ \E i \in 1..Len(limiters) : RateLimiterClone(i)
    \/ \E i \in 1..Len(limiters) : RateLimiterDrop(i)
    \/ \E i \in 1..Len(sweepTasks) : CleanupTick(i)
    \/ \E i \in 1..Len(sweepTasks) : CleanupRun(i)
    \/ Len(limiters) < MaxLimiters /\ RateLimitMiddleware("k1")

TaskSpec == Init /\ [][TaskNext]_vars

\* extract_rate_limit_key called on its own, with any headers and with or
\* without the address of the connection.
HeaderChars == {"a", "b", ",", " ", "\t"}

RECURSIVE HeaderTexts(_)
HeaderTexts(n) ==
    IF n = 0
    THEN {<<>>}
    ELSE LET shorter == HeaderTexts(n - 1)
         IN  shorter \cup { <<c>> \o str : c \in HeaderChars, str \in shorter }

ForwardedHeaders ==
    {NoHeader, OpaqueHeader, TextHeader(Unknown)}
        \cup { TextHeader(str) : str \in HeaderTexts(MaxHeaderLen) }

RealIpHeaders ==
    {NoHeader, OpaqueHeader, TextHeader(<<"a">>), TextHeader(<<" ", "b", ",", "a">>)}

ConnectInfos == {NoConnectInfo} \cup { ConnectInfo(ip) : ip \in Addresses }

KeyRequests ==
    { [x_forwarded_for |-> f, x_real_ip |-> r, connect_info |-> c] :
        f \in ForwardedHeaders, r \in RealIpHeaders, c \in ConnectInfos }

KeyInit ==
    /\ LimiterInit /\ NoHistory /\ BuildInit /\ AppIdle /\ MwIdle /\ SigIdle /\ TokIdle
    /\ TaskIdle /\ TextIdle /\ logInfo = TRUE
    /\ kpc = "call"
    /\ krequest \in KeyRequests
    /\ kresult = <<>>
    /\ connAdmitted = [c \in Addresses |-> 0]

KeyNext == ExtractCall

KeySpec == KeyInit /\ [][KeyNext]_vars

\* The closure of create_rate_limit_middleware in front of a server that
\* records the address of each connection: requests of the clients, one
\* after another in one window, each with the forwarding headers its sender
\* chose.
ConnRequests ==
    { [x_forwarded_for |-> f, x_real_ip |-> r, connect_info |-> ConnectInfo(ip)] :
        f \in {NoHeader} \cup { TextHeader(str) : str \in Addresses },
        r \in {NoHeader} \cup { TextHeader(str) : str \in Addresses },
        ip \in Addresses }

ConnNext == \E request \in ConnRequests : calls < MaxSeqCalls /\ ClosureMiddleware(request)

ConnSpec == Init /\ [][ConnNext]_vars

\* A sequential execution of a limiter built with any configuration that
\* admits a request, with the history of its sweeps kept, or of its calls.
HistConfigs ==
    { [max_requests |-> m, window_duration |-> w] :
        m \in 1..MaxRequests, w \in 1..WindowDuration }

SweepInit ==
    /\ LimiterInit /\ AppIdle /\ MwIdle /\ SigIdle /\ TokIdle /\ KeyIdle /\ TaskIdle /\ TextIdle /\ logInfo = TRUE
    /\ gTrack = {"sweeps"}
    /\ config \in HistConfigs
    /\ overflow_checks = TRUE

SweepSpec == SweepInit /\ [][SeqNext]_vars

HistInit ==
    /\ LimiterInit /\ AppIdle /\ MwIdle /\ SigIdle /\ TokIdle /\ KeyIdle /\ TaskIdle /\ TextIdle /\ logInfo = TRUE
    /\ gTrack = {"calls"}
    /\ config \in HistConfigs
    /\ overflow_checks = TRUE

HistSpec == HistInit /\ [][SeqNext]_vars

\* ------------------------------------------------------------ the claims

Min(a, b) == IF a <= b THEN a ELSE b

\* C2: one caller, a fresh key, one window: the first MaxRequests calls
\* return Allowed, the next one and every further one made while the window
\* is open return Exceeded (so the Allowed ones number min(calls, max)).
C2_FirstNAllowedThenExceeded ==
    \A k \in Keys : gAllowed[k] = Min(gCalls[k], MaxRequests)

C2_Witness ==
    \E k \in Keys :
        /\ gCalls[k] = MaxRequests + 2
        /\ last.key = k
        /\ last.result.kind = "Exceeded"

\* C3: whatever the interleaving of the calls on one key, the Allowed
\* results of one window number at most MaxRequests.
C3_AtMostMaxAllowedPerWindow ==
    \A k \in Keys : gAllowed[k] <= MaxRequests

\* C8: every stored entry has 1 <= count <= MaxRequests; no step raises a
\* count that has reached MaxRequests, and a check that finds count =
\* MaxRequests in a window still open is rejected and leaves the map as it
\* was.
C8_CountInRange ==
    \A k \in DOMAIN entries :
        entries[k].count >= 1 /\ entries[k].count <= MaxRequests

C8_RejectedAtCap ==
    /\ \A k \in DOMAIN entries \cap DOMAIN entries' :
          entries'[k].count > entries[k].count => entries[k].count < MaxRequests
    /\ \A p \in Procs :
          ( /\ pc[p] = "lookup"
            /\ pc'[p] = "idle"
            /\ key[p] \in DOMAIN entries
            /\ entries[key[p]].count = MaxRequests
            /\ clock - entries[key[p]].last_reset < WindowDuration )
          => /\ last'.result.kind = "Exceeded"
             /\ entries' = entries

C8_CountBounded == []C8_CountInRange /\ [][C8_RejectedAtCap]_vars

C8_Witness ==
    /\ last.path = "exceeded"
    /\ last.key \in DOMAIN entries
    /\ entries[last.key].count = MaxRequests

\* C9: a check that finds an entry whose window started at least
\* WindowDuration before the call's `now` returns Allowed with
\* remaining = MaxRequests - 1 and reset_after = WindowDuration and replaces
\* the entry by a fresh one (count 1, both instants the time of the
\* replacement), also when the old entry was exhausted.
C9_ExpiredWindowResets ==
    \A p \in Procs :
        ( /\ pc[p] = "lookup"
          /\ pc'[p] = "idle"
          /\ key[p] \in DOMAIN entries
          /\ now[p] - entries[key[p]].last_reset >= WindowDuration )
        => /\ last'.result.kind = "Allowed"
           /\ last'.result.remaining = MaxRequests - 1
           /\ last'.result.reset_after = WindowDuration
           /\ entries'[key[p]].count = 1
           /\ entries'[key[p]].last_reset = clock
           /\ entries'[key[p]].last_request = clock
           /\ clock >= now[p]

C9_FreshWindowAfterExpiry == [][C9_ExpiredWindowResets]_vars

C9_Witness ==
    /\ last.path = "reset"
    /\ last.prev = MaxRequests
    /\ last.result.kind = "Allowed"
    /\ entries[last.key].count = 1

\* C10: when the sweep removes an entry, the entry's window has closed and
\* its last request is older than WindowDuration at that moment.
C10_Removal ==
    \A k \in DOMAIN entries :
        k \notin DOMAIN entries' =>
            /\ clock - entries[k].last_reset > WindowDuration
            /\ clock - entries[k].last_request > WindowDuration

C10_RemovesOnlyExpired == [][C10_Removal]_vars

\* The header is the signature of the request's raw body under the
\* configured channel secret.
SignatureMatches(r) ==
    r.sig.kind = "text" /\ r.sig.text = Sign(ChannelSecret, r.body)

\* C1: a request reaches the handler, is decoded, has an event dispatched or
\* a reply call made only if its header is the signature of its raw body
\* under the channel secret; a POST /webhook whose body was read and whose
\* readable header is not that signature ends with 401 and is never decoded.
C1_NothingWithoutSignature ==
    /\ ( \/ rpc \in {"handler", "loop", "reply", "aborted"}
         \/ extracted
         \/ dispatched # <<>>
         \/ replyLog # <<>> ) => SignatureMatches(req)
    /\ ( /\ rpc = "done"
         /\ req.path = "/webhook"
         /\ req.body.json # "unreadable"
         /\ req.sig.kind = "text"
         /\ ~SignatureMatches(req) )
          => (status = 401 /\ ~extracted /\ dispatched = <<>> /\ replyLog = <<>>)

C1_Witness ==
    /\ rpc = "done"
    /\ status = 401
    /\ req.sig.kind = "text"
    /\ req.sig.text = Sign(ChannelSecret, BodyOf(<<>>))
    /\ req.body.json = "object"
    /\ Len(req.body.events) = MaxBatch

\* C4: in the application of create_app, at most MaxRequests correctly
\* signed requests of one caller reach the handler in one window (the clock
\* stands still here); the next one is answered 429.
C4_QuotaEnforced ==
    \A k \in Keys : admitted[k] <= MaxRequests

\* C6: once the batch is decoded, the request ends with every event
\* dispatched exactly once and with status 200.
C6_EveryEventDispatchedThen200 ==
    (rpc \in {"done", "aborted"} /\ extracted /\ JsonExtractor(req).ok)
        => /\ dispatched = decoded
           /\ Len(results) = Len(decoded)
           /\ status = 200

RECURSIVE ReplyCalls(_, _)
ReplyCalls(events, log) ==
    IF events = <<>> THEN <<>>
    ELSE LET out == process_event(Head(events), log)
         IN  (IF out.kind = "reply"
              THEN << [token |-> out.token, messages |-> out.messages] >>
              ELSE <<>>) \o ReplyCalls(Tail(events), log)

\* C7: the events whose dispatch has started are a prefix of the batch, in
\* batch order; at most one dispatch is unfinished, and only while its reply
\* call is pending (or it panicked); the reply calls made are those of the
\* dispatched events, in batch order.
C7_DispatchInBatchOrder ==
    /\ Len(dispatched) <= Len(decoded)
    /\ dispatched = SubSeq(decoded, 1, Len(dispatched))
    /\ Len(results) <= Len(dispatched)
    /\ Len(dispatched) <= Len(results) + 1
    /\ (Len(dispatched) = Len(results) + 1) => rpc \in {"reply", "aborted"}
    /\ replyLog = ReplyCalls(dispatched, logInfo)

C7_Witness ==
    /\ rpc = "reply"
    /\ Len(replyLog) = 2
    /\ replyLog[1].token # replyLog[2].token
    /\ results = <<"err">>

\* C5: the limiter state one request's check writes is the state the next
\* request's check reads, for both middlewares: neither passes on more than
\* max_requests requests of one key in one window (the clock stands still).
C5_MiddlewareSharesLimiter ==
    \A k \in Keys :
        /\ mwAdmitted[k] <= DefaultMaxRequests
        /\ gAllowed[k] <= MaxRequests

\* C11: verify_signature accepts the header built from the digest of its
\* own secret and body; it rejects that header for any other body, and any
\* prefixed header whose decoded bytes are not that digest.
C11_SignThenVerify ==
    vpc = "returned" =>
        /\ (vheader = Sign(vsecret, vbody)) => vresult
        /\ (\E b \in SigBodies \ {vbody} : vheader = Sign(vsecret, b)) => ~vresult
        /\ \A x \in SigByteStrings :
              ( /\ vheader = <<PrefixSha256>> \o B64Encode(x)
                /\ x # HmacSha256(vsecret, vbody) ) => ~vresult

C11_Witness ==
    /\ vpc = "returned"
    /\ vresult
    /\ Len(vbody) = MaxBodyLen
    /\ vheader = Sign(vsecret, vbody)

\* The header value does not start with "sha256=", or what follows the
\* prefix has a character outside the base64 alphabet.
Unparseable(text) ==
    \/ text = <<>>
    \/ text[1] # PrefixSha256
    \/ \E i \in 2..Len(text) : ~IsB64(text[i])

\* C12: verify_signature returns false on a header without the prefix or
\* with a suffix that is not base64, and a call changes nothing but its
\* own return value.
C12_RejectsUnparseable ==
    vpc = "returned" => (vresult \in BOOLEAN /\ (Unparseable(vheader) => vresult = FALSE))

C12_NoSideEffect ==
    vpc = "call" =>
        UNCHANGED <<vsecret, vbody, vheader, limiterVars, ghostVars, appVars, mwVars, buildVars, tokVars, keyVars, taskVars, textVars>>

C12_FalseNeverError == []C12_RejectsUnparseable /\ [][C12_NoSideEffect]_vars

C12_Witness ==
    /\ vpc = "returned"
    /\ vresult = FALSE
    /\ vheader = B64Encode(HmacSha256(vsecret, vbody))

\* The header cannot be parsed: absent, not readable as text, without the
\* "sha256=" prefix, or with a suffix that is not base64.
HeaderUnparseable(sig) ==
    sig.kind \in {"absent", "opaque"} \/ Unparseable(sig.text)

\* C13 as stated: an unparseable header ends with 400, a parseable header
\* that does not match the body ends with 401.
C13_UnparseableIs400 ==
    (rpc = "done" /\ req.path = "/webhook" /\ req.body.json # "unreadable") =>
        /\ HeaderUnparseable(req.sig) => status = 400
        /\ (~HeaderUnparseable(req.sig) /\ ~SignatureMatches(req)) => status = 401

\* C13 as amended: an absent header or one that is not readable as text ends
\* with 400; a header readable as text that does not verify against the
\* body read (also one without the prefix or with a suffix that is not
\* base64) ends with 401; neither request reaches the handler.
C13_AbsentIs400MismatchIs401 ==
    (rpc = "done" /\ req.path = "/webhook") =>
        /\ req.sig.kind \in {"absent", "opaque"} =>
              (status = 400 /\ ~extracted /\ respBody # "Invalid signature")
        /\ ( /\ req.sig.kind = "text"
             /\ req.body.json # "unreadable"
             /\ ~SignatureMatches(req) ) =>
              (status = 401 /\ ~extracted /\ respBody = "Invalid signature")
        /\ status = 401 => (req.sig.kind = "text" /\ ~SignatureMatches(req))

C13_Witness ==
    /\ rpc = "done"
    /\ req.path = "/webhook"
    /\ req.sig = HeaderText(<<PrefixSha256, NotBase64>>)
    /\ status = 401

\* The body is a JSON object with its fields whose events all have a type
\* the program knows.
WellFormedBatch(body) ==
    /\ body.json = "object"
    /\ \A i \in 1..Len(body.events) : body.events[i].type \in EventTypes

\* C14: a correctly signed POST /webhook whose body is not a well-formed
\* batch ends with 400, and no event of it is dispatched.
C14_MalformedBodyIs400 ==
    ( /\ rpc = "done"
      /\ req.path = "/webhook"
      /\ req.json_content_type
      /\ SignatureMatches(req)
      /\ ~WellFormedBatch(req.body) ) => (status = 400 /\ dispatched = <<>>)

\* C15: GET /health ends with 200 and the body "OK" whatever its headers;
\* it never reaches the handler, and while it is served neither the limiter
\* nor the count of admitted requests changes.
C15_HealthAnswer ==
    req.path = "/health" =>
        /\ rpc \in {"idle", "received", "health", "done"}
        /\ ~extracted
        /\ rpc = "done" => (status = 200 /\ respBody = "OK")

C15_HealthFrame ==
    (req.path = "/health" /\ rpc # "idle") => UNCHANGED <<limiterVars, mwVars, admitted>>

C15_HealthBypass == []C15_HealthAnswer /\ [][C15_HealthFrame]_vars

C15_Witness ==
    /\ rpc = "done"
    /\ req.path = "/health"
    /\ req.sig.kind = "absent"
    /\ status = 200

\* The operations the dispatch of event number n ran.
OpsOf(n) ==
    LET mine == SelectSeq(trace, LAMBDA t : t.event = n)
    IN  [i \in 1..Len(mine) |-> mine[i].op]

Count(ops, op) == Len(SelectSeq(ops, LAMBDA x : x = op))

\* The dispatch of the event comes to hold a list of outgoing messages.
ProducesMessages(e, log) ==
    \/ e.type \in {"follow", "join", "postback"}
    \/ /\ e.type = "message"
       /\ ReplyTokenValid(e.reply_token)
       /\ ~(log /\ MaskUserIdPanics(get_user_id_from_source(e.source)))

\* C16: the dispatch of an event calls reply_message at most once, and once
\* when it produced messages; when the pending call returns, the dispatch
\* ends with a result and no further call is made for the event.
C16_RepliesPerEvent ==
    /\ \A n \in 1..Len(dispatched) :
          Count(OpsOf(n), "reply_message") =
              (IF ProducesMessages(dispatched[n], logInfo) THEN 1 ELSE 0)
    /\ Len(replyLog) = Count([i \in 1..Len(trace) |-> trace[i].op], "reply_message")

C16_ReplyReturn ==
    rpc = "reply" =>
        /\ rpc' = "loop"
        /\ replyLog' = replyLog
        /\ trace' = trace
        /\ dispatched' = dispatched
        /\ \E r \in {"ok", "err"} : results' = Append(results, r)

C16_ReplyOnceNoRetry == []C16_RepliesPerEvent /\ [][C16_ReplyReturn]_vars

C16_Witness ==
    /\ rpc = "done"
    /\ Len(dispatched) = 2
    /\ dispatched[1].type = "follow"
    /\ dispatched[2].type = "postback"
    /\ results = <<"err", "ok">>
    /\ Len(replyLog) = 2

\* C17: a Message event's reply token is validated first; with an invalid
\* token the dispatch returns an error having run nothing else: no masking,
\* no content validation, no classification, no reply call.
C17_TokenFirst ==
    \A n \in 1..Len(dispatched) :
        dispatched[n].type = "message" =>
            /\ Len(OpsOf(n)) >= 2
            /\ OpsOf(n)[1] = "record_webhook_event"
            /\ OpsOf(n)[2] = "ReplyTokenValidator::validate"
            /\ ~ReplyTokenValid(dispatched[n].reply_token) =>
                  /\ Len(OpsOf(n)) = 2
                  /\ n <= Len(results)
                  /\ results[n] = "err"

C17_Witness ==
    /\ rpc = "done"
    /\ logInfo
    /\ Len(dispatched) = 2
    /\ dispatched[1] = MessageEvent(TokenShort, TextMessage(Hello), SourceUser(UserMultibyte))
    /\ dispatched[2].type = "follow"
    /\ Len(replyLog) = 1
    /\ status = 200

\* C18: the dispatch of an Unfollow or Leave event returns Ok, calls no
\* reply and records the event once (and writes its log line); the step
\* leaves the response and the reply calls as they were.
C18_NoReplyAlwaysOk ==
    \A n \in 1..Len(dispatched) :
        dispatched[n].type \in {"unfollow", "leave"} =>
            /\ n <= Len(results)
            /\ results[n] = "ok"
            /\ OpsOf(n) = <<"record_webhook_event">> \o (IF logInfo THEN <<"info!">> ELSE <<>>)

C18_OnlyTelemetry ==
    ( /\ rpc = "loop"
      /\ iter # <<>>
      /\ Head(iter).type \in {"unfollow", "leave"} ) =>
        /\ rpc' = "loop"
        /\ UNCHANGED <<replyLog, status, respBody, req, decoded, admitted, limiterVars>>

C18_UnfollowLeaveNoOp == []C18_NoReplyAlwaysOk /\ [][C18_OnlyTelemetry]_vars

C18_Witness ==
    /\ rpc = "done"
    /\ status = 200
    /\ Len(dispatched) = 2
    /\ dispatched[1].type = "unfollow"
    /\ dispatched[2].type = "leave"
    /\ replyLog = <<>>

\* C19: whatever the configuration, a call of check_rate_limit returns
\* Allowed or Exceeded, and an Allowed result has remaining <= max_requests
\* (as unsigned 32-bit numbers).
C19_NeverFails ==
    /\ last.result.kind \in {"none", "Allowed", "Exceeded"}
    /\ last.result.kind = "Allowed" => u32_le(last.result.remaining, config.max_requests)

\* C20: a 429 of the rate-limit middleware carries a Retry-After of at
\* least one second.
C20_RetryAfterPositive ==
    mwResponse.status = 429 => mwResponse.retry_after >= 1

\* ----------------------------------------------------------------- C21
\* The window of an entry has closed at instant n, and the entry was last
\* seen more than windowDuration before n.
ClosedAndIdle(e, n) ==
    /\ n - e.last_reset >= config.window_duration
    /\ n - e.last_request > config.window_duration

\* C21, removal: in a sequential execution every removal of a sweep takes
\* out one entry whose window has closed and whose lastSeen is older than
\* windowDuration at the sweep's instant, and changes no other entry; the
\* scan that precedes the removals changes no entry.
C21_RemovesOnlyExpired ==
    [][/\ sweepPc = "scan" => entries' = entries
       /\ (sweepPc = "remove" /\ entries' # entries) =>
             \E k \in DOMAIN entries :
                /\ ClosedAndIdle(entries[k], sweepNow)
                /\ entries' = Remove(entries, k)]_vars

\* C21, completeness: when a sweep has finished its removals, no stored
\* entry is closed and idle at the sweep's instant.
C21_RemovesAllExpired ==
    (sweepPc = "remove" /\ toRemove = <<>>) =>
        \A k \in DOMAIN entries : ~ClosedAndIdle(entries[k], sweepNow)

\* A sweep runs after a finished one, with no check_rate_limit call and no
\* clock advance since that one read the clock.
SecondSweep == sweepPc # "idle" /\ gSwept >= 0 /\ sweepNow = gSwept

\* C21, idempotence: such a second sweep selects no entry.
C21_SecondSweepSelectsNothing == SecondSweep => toRemove = <<>>

\* C21, idempotence: such a second sweep removes no entry.
C21_SecondSweepRemovesNothing == [][SecondSweep => entries' = entries]_vars

\* C21: in a sequential execution one sweep removes exactly the entries whose
\* window has closed and whose lastSeen is older than windowDuration, leaves
\* every other entry unchanged, and a second sweep with no call and no clock
\* advance in between removes nothing further.
C21_SweepExact ==
    /\ C21_RemovesOnlyExpired
    /\ []C21_RemovesAllExpired
    /\ []C21_SecondSweepSelectsNothing
    /\ C21_SecondSweepRemovesNothing

\* A second sweep at the instant of the first has finished its scan, after
\* the first removed the entry of k1 and kept the entry of k2.
C21_Witness ==
    /\ sweepPc = "remove" /\ gSwept >= 0 /\ sweepNow = gSwept
    /\ DOMAIN entries = {"k2"}
    /\ gFirst["k1"] >= 0
    /\ last.key = "k2"

\* ----------------------------------------------------------------- C22
\* The four terminal outcomes: Completed, RejectedMalformed, RejectedAuth,
\* RejectedRate.
TerminalStatuses == {200, 400, 401, 429}

\* C22: every request ends in exactly one terminal outcome, a response with
\* status 200, 401, 429 or 400: when the handling of a request has ended, it
\* has ended with a response, and the response carries one of the four.
C22_EndsInTerminalOutcome ==
    rpc \in {"done", "aborted"} => (rpc = "done" /\ status \in TerminalStatuses)

\* C22, the rest: a terminal outcome is never left (the status of a request
\* that has its response does not change while the request lasts), and a
\* delivery call that fails ends only the dispatch of its own event.
C22_OutcomeIsFinal ==
    [][(rpc = "done" /\ rpc' = "done") => status' = status]_vars

\* ----------------------------------------------------------------- C23
\* The calls on key k that returned Allowed and took place, in whole or in
\* part, in the interval [a, b]: a call lasts from the clock reading of line
\* 103 to its return.
AllowedIn(k, a, b) ==
    { i \in 1..Len(gHist[k]) : gHist[k][i].begin <= b /\ gHist[k][i].end >= a }

\* C23: in a sequential execution with maxRequests = N >= 1, for every key
\* and every time interval no longer than windowDuration, at most 2 x N
\* check_rate_limit calls on that key return Allowed.
C23_TwiceMaxPerInterval ==
    \A k \in Keys : \A a \in 0..MaxClock :
        \A b \in a..(a + config.window_duration) :
            Cardinality(AllowedIn(k, a, b)) <= 2 * config.max_requests

\* The bound is met: 2 x N calls on one key returned Allowed within one
\* interval of windowDuration, N at the end of a window and N at the start of
\* the next.
C23_Witness ==
    \E a \in 0..MaxClock :
        /\ a + config.window_duration <= MaxClock
        /\ Cardinality(AllowedIn("k1", a, a + config.window_duration))
              = 2 * config.max_requests
        /\ "k1" \in DOMAIN entries
        /\ entries["k1"].count = config.max_requests
        /\ entries["k1"].last_reset = a + config.window_duration

\* ----------------------------------------------------------------- C24
\* The call of p returns in this step, and returns Allowed.
ReturnsAllowed(p) ==
    pc[p] # "idle" /\ pc'[p] = "idle" /\ last'.result.kind = "Allowed"

\* The entry of k stored before the step and the one stored after it are of
\* the same window.
SameWindow(k) ==
    k \in DOMAIN entries /\ entries'[k].last_reset = entries[k].last_reset

\* C24: after every Allowed result of check_rate_limit(k) the reported
\* remaining is maxRequests minus the count stored for k; the count numbers
\* the admitted calls of the window (1 for the call that opens a window, one
\* more for each further call admitted in it), so that the i-th admitted call
\* of a window reports maxRequests - i; and the entry's lastSeen is the time
\* of the call.
C24_RemainingCountsAdmitted ==
    [][\A p \in Procs : ReturnsAllowed(p) =>
          LET k == key[p]
          IN  /\ last'.result.remaining = config.max_requests - entries'[k].count
              /\ entries'[k].count = IF SameWindow(k) THEN entries[k].count + 1 ELSE 1
              /\ entries'[k].last_request = clock
              /\ now[p] <= entries'[k].last_request]_vars

\* ----------------------------------------------------------------- C25
\* The call of p returns in this step, and returns Exceeded.
ReturnsExceeded(p) ==
    pc[p] # "idle" /\ pc'[p] = "idle" /\ last'.result.kind = "Exceeded"

\* C25: a check_rate_limit call that returns Exceeded leaves the limiter
\* state unchanged: the count, windowStart and lastSeen of its entry are the
\* same before and after, and no other entry changes.
C25_ExceededChangesNothing ==
    [][\A p \in Procs : ReturnsExceeded(p) =>
          /\ key[p] \in DOMAIN entries
          /\ entries' = entries]_vars

\* A call was rejected some time after the last admitted one, and the entry
\* still carries the time of that admitted call.
C25_Witness ==
    /\ last.result.kind = "Exceeded"
    /\ last.key \in DOMAIN entries
    /\ entries[last.key].count = config.max_requests
    /\ entries[last.key].last_request < clock
    /\ last.result.retry_after < config.window_duration

\* ----------------------------------------------------------------- C26
\* A step of a check_rate_limit call of p.
CheckStep(p) == pc'[p] # pc[p]

\* C26: check_rate_limit(k) changes at most the entry of key k: the entries
\* of all other keys are unchanged, and no call removes a key, so that
\* without a sweep the set of stored keys only grows.
C26_OnlyOwnKey ==
    [][\A p \in Procs : CheckStep(p) =>
          /\ DOMAIN entries \subseteq DOMAIN entries'
          /\ DOMAIN entries' \subseteq DOMAIN entries \cup {IF pc[p] = "idle" THEN key'[p] ELSE key[p]}
          /\ \A k \in DOMAIN entries :
                k # key[p] => entries'[k] = entries[k]
          /\ pc[p] = "idle" => entries' = entries]_vars

\* A call on k2 has stored its entry beside the entry of k1, which is at its
\* cap and as it was.
C26_Witness ==
    /\ DOMAIN entries = Keys
    /\ last.key = "k2" /\ last.path = "insert"
    /\ entries["k1"].count = config.max_requests
    /\ entries["k1"].last_request < entries["k2"].last_request

\* ----------------------------------------------------------------- C27
\* The text fails content validation: more than 1000 characters, a forbidden
\* word, or a control character other than newline, carriage return or tab.
FailsContentValidation(text) ==
    \/ Len(text) > 1000
    \/ \E w \in ForbiddenWords : Contains(to_lowercase(text), w)
    \/ \E i \in 1..Len(text) : is_control(text[i]) /\ text[i] \notin {"\n", "\r", "\t"}

\* The reply_message call the dispatch of event number n made (it made one).
ReplyOf(n) ==
    replyLog[Count([i \in 1..Len(trace) |->
                      IF trace[i].event <= n THEN trace[i].op ELSE "later"],
                   "reply_message")]

C28_FixedReply ==
    \A n \in 1..Len(dispatched) :
        LET e == dispatched[n]
        IN  e.type \in {"follow", "join", "postback"} =>
              /\ Count(OpsOf(n), "reply_message") = 1
              /\ ReplyOf(n).token = e.reply_token
              /\ Len(ReplyOf(n).messages) = 1
              /\ ReplyOf(n).messages[1].type = "text"
              /\ e.type = "follow" => ReplyOf(n).messages[1].text = WelcomeFollow
              /\ e.type = "join" => ReplyOf(n).messages[1].text = WelcomeJoin
              /\ e.type = "postback" => Contains(ReplyOf(n).messages[1].text, e.data)

\* A batch of a Join and a Postback event with different tokens has been
\* dispatched: two reply calls, each with the token of its own event.
C28_Witness ==
    /\ rpc = "done"
    /\ Len(dispatched) = 2
    /\ dispatched[1] = JoinEvent(TokenB)
    /\ dispatched[2] = PostbackEvent(TokenShort, <<"x", "y">>)
    /\ Len(replyLog) = 2
    /\ replyLog[1].token = TokenB
    /\ replyLog[2].token = TokenShort
    /\ results = <<"err", "ok">>

\* ----------------------------------------------------------------- C29
\* The token is non-empty, its length is between 10 and 100 inclusive, and
\* every character is an ASCII letter, an ASCII digit, '_' or '-'.
WellFormedToken(token) ==
    /\ token # <<>>
    /\ Len(token) >= 10
    /\ Len(token) <= 100
    /\ \A i \in 1..Len(token) : token[i] \in AsciiLetters \cup AsciiDigits \cup {"_", "-"}

\* C29: ReplyTokenValidator::validate accepts a token if and only if it is
\* non-empty, its length is between 10 and 100 inclusive and every character
\* is an ASCII letter, an ASCII digit, '_' or '-'; every other token is
\* rejected with a validation error.
C29_AcceptsIffWellFormed ==
    tpc = "returned" => (tresult <=> WellFormedToken(ttoken))

\* validate has accepted a token of 100 characters that ends in '_'.
C29_Witness ==
    /\ tpc = "returned"
    /\ tresult
    /\ Len(ttoken) = 100
    /\ ttoken[100] = "_"

\* ----------------------------------------------------------------- C30
\* The entry of k is stored and was last seen at instant t.
LastSeenAt(k, t) == k \in DOMAIN entries /\ entries[k].last_request = t

\* C30: if a key receives no further check_rate_limit calls, its entry is
\* eventually removed, while the clock advances and the sweep keeps running:
\* an entry last seen at t is in the end removed, or seen again later.  (The
\* clock of the model stops at MaxClock, so t is an instant it can leave more
\* than windowDuration behind.)
C30_IdleEntryRemoved ==
    \A k \in Keys : \A t \in 0..(MaxClock - 2) :
        (LastSeenAt(k, t) /\ t + config.window_duration < MaxClock)
            ~> (k \notin DOMAIN entries \/ entries[k].last_request > t)

\* The sweep has removed the entry of k1, which was at its cap, and kept the
\* entry of k2, seen later.
C30_Witness ==
    /\ sweepPc = "idle"
    /\ clock = MaxClock
    /\ gAllowed["k1"] >= 1
    /\ DOMAIN entries = {"k2"}
    /\ entries["k2"].last_request + config.window_duration >= MaxClock

\* ----------------------------------------------------------------- C31
\* What a caller sees of a result: Allowed or Exceeded, and the remaining.
Seen(result) ==
    [kind |-> result.kind,
     remaining |-> IF result.kind = "Allowed" THEN result.remaining ELSE 0]

\* C31: sweeps are invisible to callers: every call returns the same
\* Allowed/Exceeded result and the same remaining as the same call, made at
\* the same instants, returns on a limiter that never sweeps.
C31_SweepsInvisible ==
    (pc["p1"] = "idle" /\ calls > 0) =>
        /\ gShadowLast.call = calls
        /\ Seen(last.result) = Seen(gShadowLast.result)

\* ----------------------------------------------------------------- C32
\* elem is the first comma-separated element of text: the text before its
\* first comma, or all of it when it holds none.
FirstElement(text, elem) ==
    \E n \in 0..Len(text) :
        /\ elem = SubSeq(text, 1, n)
        /\ \A i \in 1..n : text[i] # ","
        /\ n = Len(text) \/ text[n + 1] = ","

\* str is elem with the whitespace around it removed.
Stripped(elem, str) ==
    \E i \in 1..(Len(elem) + 1), j \in 0..Len(elem) :
        /\ str = SubSeq(elem, i, j)
        /\ \A x \in 1..(i - 1) : elem[x] \in {" ", "\t"}
        /\ \A x \in (j + 1)..Len(elem) : elem[x] \in {" ", "\t"}
        /\ str = <<>> \/ (str[1] \notin {" ", "\t"} /\ str[Len(str)] \notin {" ", "\t"})

Usable(header) == header.present /\ header.readable

\* str is the first comma-separated element of the header's text with the
\* whitespace around it removed.
FirstStripped(header, str) ==
    \E elem \in {SubSeq(header.text, 1, n) : n \in 0..Len(header.text)} :
        FirstElement(header.text, elem) /\ Stripped(elem, str)

C33_BoundPerConnection ==
    \A c \in Addresses : connAdmitted[c] <= config.max_requests

\* ----------------------------------------------------------------- C34
\* A delivery call of the request in flight has been made and has not
\* returned.
DeliveryPending == rpc = "reply"

\* C34: the 200 response for a decoded batch is produced only after the
\* dispatch of every event of the batch has finished, every delivery call
\* made for the batch having returned; while a delivery call of the batch is
\* still pending, the request has no response.
C34_ResponseAfterDispatch ==
    /\ DeliveryPending => status = 0
    /\ (extracted /\ status = 200) =>
          /\ ~DeliveryPending
          /\ iter = <<>>
          /\ Len(dispatched) = Len(decoded)
          /\ Len(results) = Len(dispatched)

\* A batch of two events was answered with 200 after two delivery calls, the
\* first of which failed.
C34_Witness ==
    /\ extracted
    /\ status = 200
    /\ Len(decoded) = 2
    /\ Len(replyLog) = 2
    /\ results = <<"err", "ok">>

\* ----------------------------------------------------------------- C35
\* The text begins with "echo ".
BeginsWithEcho(text) ==
    Len(text) >= 5 /\ SubSeq(text, 1, 5) = <<"e", "c", "h", "o", " ">>

\* C35: the dispatch of a Message event with a valid reply token and the text
\* "hello" makes exactly one reply, of the single Text message with the fixed
\* greeting; the dispatch of one whose text begins with "echo " makes exactly
\* one reply, of the single Text message that is the fixed echo prefix
\* followed by the remainder of the text, whatever the remainder.
C35_GreetingAndEcho ==
    \A n \in 1..Len(dispatched) :
        LET e == dispatched[n]
            isText == e.type = "message" /\ e.message.type = "text"
                      /\ ReplyTokenValid(e.reply_token)
        IN  /\ (isText /\ e.message.text = <<"h", "e", "l", "l", "o">>) =>
                  /\ Count(OpsOf(n), "reply_message") = 1
                  /\ ReplyOf(n).messages = << OutText(Greeting) >>
            /\ (isText /\ BeginsWithEcho(e.message.text)) =>
                  /\ Count(OpsOf(n), "reply_message") = 1
                  /\ ReplyOf(n).messages =
                        << OutText(EchoPrefix
                                   \o SubSeq(e.message.text, 6, Len(e.message.text))) >>

\* ----------------------------------------------------------------- C36
\* The kind of the reply chosen.
ReplyKind(messages) ==
    IF messages = <<>> THEN "none"
    ELSE IF messages[1].type = "sticker" THEN "sticker"
    ELSE IF messages[1].text = Greeting THEN "greeting"
    ELSE IF messages[1].text = HelpText THEN "help"
    ELSE IF strip_prefix(messages[1].text, TimePrefix).some THEN "time"
    ELSE IF strip_prefix(messages[1].text, EchoPrefix).some THEN "echo"
    ELSE IF messages[1].text = Fallback THEN "fallback"
    ELSE "other"

\* Two texts differ in the case of letters only.
SameUpToCase(s, t) ==
    Len(s) = Len(t) /\ \A i \in 1..Len(s) : Lower(s[i]) = Lower(t[i])

\* C36: handle_text_message matches commands case-insensitively: the replies
\* chosen for two texts that differ in the case of letters only are of the
\* same kind (greeting, help, time, sticker, echo or fallback), and every
\* text yields exactly one outgoing message.
C36_CaseInsensitive ==
    \A i \in 1..Len(hlog) :
        /\ Len(hlog[i].messages) = 1
        /\ ReplyKind(hlog[i].messages) \in
              {"greeting", "help", "time", "sticker", "echo", "fallback"}
        /\ \A j \in 1..Len(hlog) :
              SameUpToCase(hlog[i].text, hlog[j].text) =>
                  ReplyKind(hlog[i].messages) = ReplyKind(hlog[j].messages)

\* ----------------------------------------------------------------- C37
\* The limiters of which a handle remains, and the cleanup tasks that run.
LiveLimiters == { i \in 1..Len(limiters) : limiters[i] > 0 }
RunningTasks == { i \in 1..Len(sweepTasks) : sweepTasks[i] \in {"tick", "cleanup"} }

\* C37: the cleanup task is tied to the limiter's lifecycle: one task is
\* started per RateLimiter construction (clones share it), and the task has
\* stopped when no handle of its limiter remains, so the number of running
\* tasks never exceeds the number of live limiters.
C37_TaskOwnedByLimiter ==
    /\ Len(sweepTasks) = Len(limiters)
    /\ \A i \in RunningTasks : i \in LiveLimiters
    /\ Cardinality(RunningTasks) <= Cardinality(LiveLimiters)

\* ----------------------------------------------------------------- C38
\* C38: mask_user_id returns a masked string for every user id, ids with
\* multi-byte characters included, so logging the sender while handling a
\* Message event never aborts the dispatch of that event or the request: a
\* dispatch that called mask_user_id goes on past the call.
C38_MaskNeverAborts ==
    \A n \in 1..Len(dispatched) :
        Count(OpsOf(n), "mask_user_id") > 0 =>
            /\ OpsOf(n)[Len(OpsOf(n))] # "mask_user_id"
            /\ ~(n = Len(dispatched) /\ rpc = "aborted")

====
